---- MODULE Spec2Model ----
(***************************************************************************)
(* Model of the audio-master / video-follower sync engine of the YouTube   *)
(* cue point editor:                                                       *)
(*   - WaveformPlayer.jsx : the playback state machine (startAudio,        *)
(*     stopAudio, togglePlayback, jumpToCue, source.onended,               *)
(*     updateCurrentTime);                                                 *)
(*   - UnifiedVideoEditor : handlePlaybackStateChange, the owner state     *)
(*     that is handed to VideoPlayer / useVideoSync as props;              *)
(*   - useVideoSync.js    : calculateExpectedVideoTime, calculateDrift,    *)
(*     correctVideoTime, periodicDriftCheck, startSync, stopSync,          *)
(*     forceSync and the lifecycle effects.                                *)
(*                                                                         *)
(* Time and positions are integers in units of 10 ms (0.01 s), so that the *)
(* 0.01 s epsilon of correctVideoTime is one unit.  performance.now() and  *)
(* AudioContext.currentTime are both read off the variable now.            *)
(* React 18 batches the state updates of one handler: every action below   *)
(* is one handler followed by the commit and the effects it causes.        *)
(***************************************************************************)
EXTENDS Integers, Sequences, FiniteSets, TLC

\* ---------------------------------------------------------------- bounds
MaxClock == 200          \* the clock stops advancing here
Burst == 10              \* the clock is read within Burst units after a multiple of the
                         \* watchdog period: operations come in bursts, 2 s steps between them
MaxSamples == 1          \* a user operation leaves at most MaxSamples drift samples in the history
PageAge == 10            \* performance.now() when AudioContext.currentTime is 0
Epoch == 1000            \* Date.now() when AudioContext.currentTime is 0
MaxCues == 2             \* cues in the registry at one time
MaxTriggers == 2         \* key presses that trigger a cue in one run
MaxOps == 4                \* registry and dispatch operations in one run
DispatchEnd == 16           \* the clock of a dispatch run stops here
MaxKeyed == 10             \* key symbols the cues of an initial registry can carry

\* ------------------------------------------------------- program constants
CORRECTION_THROTTLE_MS == 10     \* 100 ms
DRIFT_THRESHOLD == 5             \* 0.05 s
EPSILON == 1                     \* 0.01 s
WATCHDOG_MS == 200               \* 2000 ms
HISTORY_CAP == 100
SAMPLE_RATE == 48000          \* sampleRate = 48000, the editor's and the grid's
MAX_CUE_SLOTS == 16           \* maxCueSlots = 16
DebounceMs == 15              \* debounceMs: 150 ms, as UnifiedVideoEditor passes it

NULL == -1                       \* null (audioStartTime, audioSourceRef, periodicTimeoutRef)
NaNDur == -1                     \* video.duration before the metadata is known (NaN)

AudioDuration == 240             \* length of the decoded audio buffer
CueTimes == {27, 236}         \* positions a jump can target
VideoDurations == {0, 30}     \* durations the video can turn out to have
Steps == {4, 10, 200}            \* amounts by which the clock advances
Jitters == {-7}             \* amounts by which the follower's own clock slips
SourceIds == {1, 2}              \* AudioBufferSourceNodes alive at one time
FollowerPositions == {0, 7}     \* positions the follower reports in the statistics runs
HookOffsets == {0, 27}          \* cue offsets handed to the hook on its own
ExcludeTargets == {"input", "textarea", "select"}   \* excludeTargets, the default

Max(a, b) == IF a >= b THEN a ELSE b
Min(a, b) == IF a <= b THEN a ELSE b
Abs(a) == IF a >= 0 THEN a ELSE -a

VARIABLES
  now,       \* the master clock: AudioContext.currentTime, and performance.now() - PageAge
  wp,        \* WaveformPlayer: its refs and React state
  sources,   \* the AudioBufferSourceNodes created so far: state and end of buffer
  props,     \* UnifiedVideoEditor state = the props and (after the commit) the refs of useVideoSync
  sync,      \* useVideoSync: lastCorrectionTimeRef, statsRef, isActiveRef, periodicTimeoutRef,
             \* the pending timeouts, the <video> element, and a record of the last controller call
  mounted,   \* the <video> element exists (VideoPlayer has rendered once)
  ev,        \* the operation that produced this state (history variable)
  cuePoints, \* the cue registry: the cuePoints state of the owner, an array of cue records
  editor,    \* CuePointEditor: editingId, validationErrors, draggedIndex
  kb,        \* useCueKeyboardMap: its enabled parameter, keyMapRef and lastTriggerRef
  activeCue  \* the activeCue state of the owner: the cue last triggered or added, if any

vars == <<now, wp, sources, props, sync, mounted, ev, cuePoints, editor, kb, activeCue>>

\* the player and the sync hook, which the cue registry and the key dispatch leave alone
playerVars == <<wp, sources, props, sync, mounted>>

\* the cue registry and the key dispatch, which the player and the sync hook leave alone
cueVars == <<cuePoints, editor, kb, activeCue>>

\* performance.now(), in units of 10 ms
PerfNow(t) == t + PageAge

\* ----------------------------------------------------------------------
\* useVideoSync.js
\* ----------------------------------------------------------------------

\* the expected time as simulateSyncCalculation computes it: no floor at 0
CalculateExpectedVideoTime_NoFloor(p, t) ==
  IF ~p.context \/ p.audioStartTime = NULL THEN 0
  ELSE p.cueOffset + (t - p.audioStartTime)

\* an expected time that is the audio clock itself
CalculateExpectedVideoTime_ContextTime(p, t) ==
  IF ~p.context \/ p.audioStartTime = NULL THEN 0 ELSE t

\* calculateExpectedVideoTime (p: the refs; t: ctx.currentTime)
CalculateExpectedVideoTime(p, t) ==
  IF ~p.context \/ p.audioStartTime = NULL THEN 0
  ELSE Max(0, p.cueOffset + (t - p.audioStartTime))

\* driftHistory.reduce((a, b) => a + b, 0), over the entries lo..hi
RECURSIVE SumOf(_, _, _)
SumOf(hist, lo, hi) ==
  IF lo > hi THEN 0
  ELSE IF lo = hi THEN hist[lo]
  ELSE LET mid == (lo + hi) \div 2
       IN SumOf(hist, lo, mid) + SumOf(hist, mid + 1, hi)

\* a history that is never shifted
PushSample_NoEvict(stats, a) ==
  LET hist == Append(stats.driftHistory, a)
  IN [stats EXCEPT !.driftHistory = hist,
                   !.maxDrift = Max(stats.maxDrift, a),
                   !.avgDrift = [sum |-> SumOf(hist, 1, Len(hist)), n |-> Len(hist)]]

\* the largest sample of a history (0 for none)
RECURSIVE MaxOf(_, _, _)
MaxOf(hist, lo, hi) ==
  IF lo > hi THEN 0
  ELSE IF lo = hi THEN hist[lo]
  ELSE LET mid == (lo + hi) \div 2
       IN Max(MaxOf(hist, lo, mid), MaxOf(hist, mid + 1, hi))

\* a monitor whose maximum forgets the evicted samples
PushSample_MaxOfHistory(stats, a) ==
  LET pushed == Append(stats.driftHistory, a)
      hist == IF Len(pushed) > HISTORY_CAP THEN Tail(pushed) ELSE pushed
  IN [stats EXCEPT !.driftHistory = hist,
                   !.maxDrift = MaxOf(hist, 1, Len(hist)),
                   !.avgDrift = [sum |-> SumOf(hist, 1, Len(hist)), n |-> Len(hist)]]

\* the statistics part of calculateDrift: push |drift|, shift beyond 100, max, average
PushSample(stats, a) ==
  LET pushed == Append(stats.driftHistory, a)
      hist == IF Len(pushed) > HISTORY_CAP THEN Tail(pushed) ELSE pushed
  IN [stats EXCEPT !.driftHistory = hist,
                   !.maxDrift = Max(stats.maxDrift, a),
                   !.avgDrift = [sum |-> SumOf(hist, 1, Len(hist)), n |-> Len(hist)]]

\* video.currentTime - calculateExpectedVideoTime(), or 0 without a video element
DriftOf(s, p, t) ==
  IF ~p.videoElement THEN 0 ELSE s.videoTime - CalculateExpectedVideoTime(p, t)

\* calculateDrift: the drift, and the hook state with the sample recorded
CalculateDrift(s, p, t) ==
  IF ~p.videoElement THEN s
  ELSE [s EXCEPT !.stats = PushSample(s.stats, Abs(DriftOf(s, p, t)))]

\* a controller without the throttle
Throttled_Never(s, t) == FALSE

\* timeSinceLastCorrection < CORRECTION_THROTTLE_MS
Throttled(s, t) == PerfNow(t) - s.lastCorrectionTime < CORRECTION_THROTTLE_MS

\* a controller that seeks to the expected position without clamping it
CorrectedTime_NoClamp(expectedTime, duration) == expectedTime

\* Math.min(expectedTime, video.duration || expectedTime): NaN and 0 are falsy
CorrectedTime(expectedTime, duration) ==
  IF duration = NaNDur \/ duration = 0 THEN expectedTime
  ELSE Min(expectedTime, duration)

\* a controller that corrects any drift at all
NeedsCorrection_AnyDrift(absDrift) == absDrift > 0

\* absDrift > driftThreshold
NeedsCorrection(absDrift) == absDrift > DRIFT_THRESHOLD

\* correctedTime >= 0 && Math.abs(correctedTime - video.currentTime) > 0.01
WorthSeeking(correctedTime, videoTime) ==
  correctedTime >= 0 /\ Abs(correctedTime - videoTime) > EPSILON

\* the record of a controller call: none made by the last operation
NoCall == [ran |-> FALSE, throttled |-> FALSE, applied |-> FALSE,
           threw |-> FALSE, changed |-> FALSE, seeks |-> 0]

\* what a controller call changed: the follower position, the count or the time stamp
Changed(s, r) ==
  \/ r.videoTime # s.videoTime
  \/ r.stats.corrections # s.stats.corrections
  \/ r.lastCorrectionTime # s.lastCorrectionTime

\* a controller that answers a throwing seek with one more seek, to the target
\* clamped into [0, duration]
CorrectVideoTime_RetryOnce(s, p, t, throws) ==
  IF ~p.videoElement \/ ~p.context THEN s
  ELSE
    LET s1 == CalculateDrift(s, p, t)
        drift == DriftOf(s, p, t)
        expectedTime == CalculateExpectedVideoTime(p, t)
        correctedTime == CorrectedTime(expectedTime, s.videoDuration)
        seek == NeedsCorrection(Abs(drift)) /\ WorthSeeking(correctedTime, s.videoTime)
        r == IF Throttled(s, t) THEN s
             ELSE IF seek
             THEN [s1 EXCEPT !.videoTime = Max(0, correctedTime),
                             !.lastCorrectionTime = PerfNow(t),
                             !.stats.corrections = s1.stats.corrections + 1,
                             !.lastAppliedAt = PerfNow(t)]
             ELSE s1
    IN [r EXCEPT !.call = [ran |-> TRUE,
                           throttled |-> Throttled(s, t),
                           applied |-> r.lastAppliedAt # s.lastAppliedAt
                                       \/ r.videoTime # s.videoTime,
                           threw |-> ~Throttled(s, t) /\ seek /\ throws,
                           changed |-> Changed(s, r),
                           seeks |-> IF Throttled(s, t) \/ ~seek THEN 0
                                     ELSE IF throws THEN 2 ELSE 1]]

\* a controller that counts the correction before it assigns the position
CorrectVideoTime_CountsAttempts(s, p, t, throws) ==
  IF ~p.videoElement \/ ~p.context THEN s
  ELSE
    LET s1 == CalculateDrift(s, p, t)
        drift == DriftOf(s, p, t)
        expectedTime == CalculateExpectedVideoTime(p, t)
        correctedTime == CorrectedTime(expectedTime, s.videoDuration)
        seek == NeedsCorrection(Abs(drift)) /\ WorthSeeking(correctedTime, s.videoTime)
        r == IF Throttled(s, t) THEN s
             ELSE IF seek /\ ~throws
             THEN [s1 EXCEPT !.videoTime = correctedTime,
                             !.lastCorrectionTime = PerfNow(t),
                             !.stats.corrections = s1.stats.corrections + 1,
                             !.lastAppliedAt = PerfNow(t)]
             ELSE IF seek
             THEN [s1 EXCEPT !.stats.corrections = s1.stats.corrections + 1]
             ELSE s1
    IN [r EXCEPT !.call = [ran |-> TRUE,
                           throttled |-> Throttled(s, t),
                           applied |-> r.lastAppliedAt # s.lastAppliedAt
                                       \/ r.videoTime # s.videoTime,
                           threw |-> ~Throttled(s, t) /\ seek /\ throws,
                           changed |-> Changed(s, r),
                           seeks |-> IF ~Throttled(s, t) /\ seek THEN 1 ELSE 0]]

\* correctVideoTime; throws: the assignment video.currentTime = ... throws
CorrectVideoTime(s, p, t, throws) ==
  IF ~p.videoElement \/ ~p.context THEN s
  ELSE
    LET s1 == CalculateDrift(s, p, t)
        drift == DriftOf(s, p, t)
        expectedTime == CalculateExpectedVideoTime(p, t)
        correctedTime == CorrectedTime(expectedTime, s.videoDuration)
        seek == NeedsCorrection(Abs(drift)) /\ WorthSeeking(correctedTime, s.videoTime)
        r == IF Throttled(s, t) THEN s
             ELSE IF seek /\ ~throws
             THEN [s1 EXCEPT !.videoTime = correctedTime,
                             !.lastCorrectionTime = PerfNow(t),
                             !.stats.corrections = s1.stats.corrections + 1,
                             !.lastAppliedAt = PerfNow(t)]
             ELSE s1
    IN [r EXCEPT !.call = [ran |-> TRUE,
                           throttled |-> Throttled(s, t),
                           applied |-> r.lastAppliedAt # s.lastAppliedAt
                                       \/ r.videoTime # s.videoTime,
                           threw |-> ~Throttled(s, t) /\ seek /\ throws,
                           changed |-> Changed(s, r),
                           seeks |-> IF ~Throttled(s, t) /\ seek THEN 1 ELSE 0]]

\* setTimeout: the handle of a new timeout (the least one not in use)
NewTimer(s) ==
  CHOOSE i \in 1..(Cardinality(s.timers) + 2) :
    i # s.periodicTimeoutRef /\ \A tm \in s.timers : tm.id # i

\* periodicTimeoutRef.current = setTimeout(periodicDriftCheck, 2000)
Schedule(s, t) ==
  LET id == NewTimer(s)
  IN [s EXCEPT !.timers = s.timers \cup {[id |-> id, due |-> t + WATCHDOG_MS]},
               !.periodicTimeoutRef = id]

\* if (periodicTimeoutRef.current) { clearTimeout(...); periodicTimeoutRef.current = null }
ClearPending(s) ==
  IF s.periodicTimeoutRef = NULL THEN s
  ELSE [s EXCEPT !.timers = {tm \in s.timers : tm.id # s.periodicTimeoutRef},
                 !.periodicTimeoutRef = NULL]

\* startSync
StartSync(s, p, t) ==
  IF ~p.videoElement \/ ~p.context THEN s
  ELSE Schedule([s EXCEPT !.isActive = TRUE,
                          !.stats = [corrections |-> 0, maxDrift |-> 0,
                                     avgDrift |-> [sum |-> 0, n |-> 0],
                                     driftHistory |-> << >>]], t)

\* a stopSync that only lowers the flag and leaves the timeout pending
StopSync_FlagOnly(s) == [s EXCEPT !.isActive = FALSE]

\* stopSync
StopSync(s) ==
  IF ~s.isActive THEN s
  ELSE ClearPending([s EXCEPT !.isActive = FALSE])

\* forceSync
ForceSync(s, p, t, throws) ==
  IF ~p.videoElement \/ ~p.context THEN s
  ELSE CorrectVideoTime(s, p, t, throws)

\* absDrift > driftThreshold * 2, the test of the periodic check
WatchdogWorthy(absDrift) == absDrift > DRIFT_THRESHOLD * 2

\* periodicDriftCheck, run by a timeout that has already left the pending set
PeriodicDriftCheck(s, p, t, throws) ==
  LET s0 == ClearPending(s)
  IN IF ~s0.isActive \/ ~p.isPlaying THEN s0
     ELSE LET s1 == CalculateDrift(s0, p, t)
              s2 == IF WatchdogWorthy(Abs(DriftOf(s0, p, t)))
                    THEN CorrectVideoTime(s1, p, t, throws) ELSE s1
          IN Schedule(s2, t)

\* getSyncStatus: the status is computed by calculateDrift, which records a sample
GetSyncStatus(s, p, t) ==
  IF ~p.videoElement \/ ~p.context THEN s
  ELSE CalculateDrift(s, p, t)

\* a lifecycle effect that looks at isPlaying alone
LifecycleEffect_PlayingOnly(old, new, s, t) ==
  IF old.isPlaying = new.isPlaying /\ old.videoElement = new.videoElement
     /\ old.context = new.context /\ old.audioStartTime = new.audioStartTime
  THEN s
  ELSE IF new.isPlaying THEN StartSync(StopSync(s), new, t) ELSE StopSync(s)

\* the lifecycle effect: deps [isPlaying, videoElement, context, audioStartTime]
LifecycleEffect(old, new, s, t) ==
  IF old.isPlaying = new.isPlaying /\ old.videoElement = new.videoElement
     /\ old.context = new.context /\ old.audioStartTime = new.audioStartTime
  THEN s
  ELSE LET cleaned == StopSync(s)     \* the cleanup returned by the previous run
       IN IF new.isPlaying /\ new.videoElement /\ new.context /\ new.audioStartTime # NULL
          THEN StartSync(cleaned, new, t)
          ELSE StopSync(cleaned)

\* the parameter-change effect: deps [cueOffset, audioStartTime, isPlaying, videoElement, context]
ForceSyncEffect(old, new, s, t, throws) ==
  IF old.cueOffset = new.cueOffset /\ old.audioStartTime = new.audioStartTime
     /\ old.isPlaying = new.isPlaying /\ old.videoElement = new.videoElement
     /\ old.context = new.context
  THEN s
  ELSE IF new.isPlaying /\ new.videoElement /\ new.context
       THEN ForceSync(s, new, t, throws) ELSE s

\* unmount: the cleanup of the lifecycle effect (stopSync), then the cleanup of the
\* unmount effect (clearTimeout of the tracked timeout, stopSync)
Teardown(s) ==
  LET s1 == StopSync(s)
      s2 == IF s1.periodicTimeoutRef = NULL THEN s1
            ELSE [s1 EXCEPT !.timers = {tm \in s1.timers : tm.id # s1.periodicTimeoutRef}]
  IN StopSync(s2)

\* one commit of VideoPlayer: the refs take the new props, then the effects run in order
Commit(old, new, s, t, throws) ==
  ForceSyncEffect(old, new, LifecycleEffect(old, new, [s EXCEPT !.call = NoCall], t), t, throws)

\* ----------------------------------------------------------------------
\* WaveformPlayer.jsx and the owner's handlePlaybackStateChange
\* x is the record [wp, sources, props] a handler works on
\* ----------------------------------------------------------------------

\* an owner that forgets setCueOffset
HandlePlaybackStateChange_NoOffset(p, state) ==
  [p EXCEPT !.isPlaying = state.isPlaying,
            !.audioStartTime = state.audioStartTime]

\* handlePlaybackStateChange: setIsPlaying, setAudioStartTime, setCueOffset
HandlePlaybackStateChange(p, state) ==
  [p EXCEPT !.isPlaying = state.isPlaying,
            !.audioStartTime = state.audioStartTime,
            !.cueOffset = state.cueOffset]

\* stopAudio
StopAudio(x) ==
  LET id == x.wp.audioSourceRef
  IN [wp |-> [x.wp EXCEPT !.audioSourceRef = NULL,
                          !.audioStartTimeRef = NULL,
                          !.isPlaying = FALSE],
      sources |-> IF id = NULL THEN x.sources
                  ELSE [x.sources EXCEPT ![id] =
                          IF @.state = "playing" THEN [state |-> "ending", endsAt |-> 0]
                          ELSE @],
      props |-> HandlePlaybackStateChange(x.props,
                  [isPlaying |-> FALSE, audioStartTime |-> NULL,
                   cueOffset |-> x.wp.cueOffsetRef])]

\* createBufferSource: a node not in use (not playing, no 'ended' event pending)
FreeSources(srcs) == {i \in SourceIds : srcs[i].state = "free"}
NewSource(srcs) == CHOOSE i \in FreeSources(srcs) : \A j \in FreeSources(srcs) : i <= j

\* startAudio(offset); fail: "no", or the statement of the try block that throws
StartAudio(x, offset, t, fail) ==
  IF ~x.wp.audioBufferRef \/ ~x.wp.audioContextRef THEN x
  ELSE
    LET y == StopAudio(x)
        id == NewSource(y.sources)
    IN CASE fail = "create" -> y
         [] fail = "start" ->
              [y EXCEPT !.wp.audioStartTimeRef = t, !.wp.cueOffsetRef = offset]
         [] OTHER ->
              [wp |-> [y.wp EXCEPT !.audioStartTimeRef = t,
                                   !.cueOffsetRef = offset,
                                   !.audioSourceRef = id,
                                   !.isPlaying = TRUE],
               sources |-> [y.sources EXCEPT ![id] =
                              [state |-> "playing",
                               endsAt |-> t + Max(0, AudioDuration - offset)]],
               props |-> HandlePlaybackStateChange(y.props,
                           [isPlaying |-> TRUE, audioStartTime |-> t,
                            cueOffset |-> offset])]

\* an 'ended' handler without the identity guard
IsCurrentSource_Any(x, source) == TRUE

\* source.onended = () => { if (audioSourceRef.current === source) stopAudio() }
IsCurrentSource(x, source) == x.wp.audioSourceRef = source
OnEndedHandler(x, source) ==
  IF IsCurrentSource(x, source) THEN StopAudio(x) ELSE x

\* togglePlayback
TogglePlayback(x, t, fail) ==
  IF ~x.wp.audioBufferRef \/ ~x.wp.audioContextRef \/ ~x.wp.isReady THEN x
  ELSE IF x.wp.isPlaying THEN StopAudio(x)
  ELSE StartAudio(x, x.wp.currentTime, t, fail)

\* a jumpToCue that restarts the audio only when it is playing, and otherwise
\* only moves the resting position
JumpToCue_KeepsIdle(x, time, t, fail) ==
  IF ~x.wp.audioBufferRef \/ ~x.wp.audioContextRef THEN x
  ELSE IF x.wp.isPlaying THEN StartAudio(x, time, t, fail)
  ELSE [x EXCEPT !.wp.cueOffsetRef = time, !.wp.currentTime = time]

\* jumpToCue(time): the wavesurfer seek is visual only
JumpToCue(x, time, t, fail) ==
  IF ~x.wp.audioBufferRef \/ ~x.wp.audioContextRef THEN x
  ELSE StartAudio(x, time, t, fail)

\* updateCurrentTime: !audioStartTimeRef.current is true of null and of 0
UpdateCurrentTime(w, t) ==
  IF ~w.audioContextRef \/ w.audioStartTimeRef = NULL \/ w.audioStartTimeRef = 0
     \/ ~w.isPlaying
  THEN w
  ELSE [w EXCEPT !.currentTime = w.cueOffsetRef + (t - w.audioStartTimeRef)]

\* ----------------------------------------------------------------------
\* CuePointEditor.jsx, CuePointGrid.jsx and the cue handlers of UnifiedVideoEditor
\* ----------------------------------------------------------------------

\* calculateSamplePosition: Math.round(time * sampleRate), time in units of 10 ms
CalculateSamplePosition(time) == (time * SAMPLE_RATE) \div 100

\* a cue record as addCue and the grid build it (times in units of 10 ms)
Cue(time, label, key) ==
  [time |-> time, label |-> label, key |-> key,
   sample_rate |-> SAMPLE_RATE, sample_position |-> CalculateSamplePosition(time)]

\* `Cue ${n}`
CueLabel(n) == "Cue " \o ToString(n)

\* Array.prototype.sort((a, b) => a.time - b.time) is stable: c goes behind every
\* cue that is not later than it
InsertByTime(sorted, c) ==
  LET k == Cardinality({i \in 1..Len(sorted) : sorted[i].time <= c.time})
  IN SubSeq(sorted, 1, k) \o <<c>> \o SubSeq(sorted, k + 1, Len(sorted))

RECURSIVE SortFrom(_, _)
SortFrom(sorted, rest) ==
  IF rest = << >> THEN sorted ELSE SortFrom(InsertByTime(sorted, Head(rest)), Tail(rest))

\* [...cues].sort((a, b) => a.time - b.time)
SortByTime(cues) == SortFrom(<< >>, cues)

\* the symbols getNextAvailableKey scans, in its order: '1'..'9', then 'a'..'z'
KeyOrder ==
  <<"1", "2", "3", "4", "5", "6", "7", "8", "9",
    "a", "b", "c", "d", "e", "f", "g", "h", "i", "j", "k", "l", "m",
    "n", "o", "p", "q", "r", "s", "t", "u", "v", "w", "x", "y", "z">>

\* what Math.random().toString(36).substring(2, 3) can return
RandomKeys == {KeyOrder[i] : i \in 1..Len(KeyOrder)} \cup {"0", ""}

\* new Set(cuePoints.map(cue => cue.key).filter(Boolean))
UsedKeys(cues) == {cues[i].key : i \in 1..Len(cues)} \ {""}

\* a getNextAvailableKey that picks the symbol by the number of cues
GetNextAvailableKey_ByCount(cues) ==
  {KeyOrder[IF Len(cues) < Len(KeyOrder) THEN Len(cues) + 1 ELSE Len(KeyOrder)]}

\* getNextAvailableKey: the keys it can return (one, unless all 35 symbols are used)
GetNextAvailableKey(cues) ==
  LET free == {i \in 1..Len(KeyOrder) : KeyOrder[i] \notin UsedKeys(cues)}
  IN IF free = {} THEN RandomKeys
     ELSE {KeyOrder[CHOOSE i \in free : \A j \in free : i <= j]}

\* !cue.label || cue.label.trim().length === 0, over the labels in use
IsBlank(label) == label \in {"", " "}

\* validateCue: the fields found in error
ValidateCue(cue, index, cues, duration) ==
  {f \in {"time", "label", "key"} :
     \/ f = "time" /\ (cue.time < 0 \/ cue.time > duration)
     \/ f = "label" /\ IsBlank(cue.label)
     \/ f = "key" /\ cue.key # ""
          /\ \E i \in 1..Len(cues) : i # index /\ cues[i].key = cue.key}

\* addCue: a cue at the current time, labelled by the count, with the next free key
AddCue(cues, currentTime, key) ==
  SortByTime(Append(cues, Cue(currentTime, CueLabel(Len(cues) + 1), key)))

\* parseTime: "MM:SS.mmm", plain seconds, or text that parseFloat turns into NaN
ParseTime(input) ==
  IF input.form = "mm:ss" THEN input.minutes * 6000 + input.seconds
  ELSE IF input.form = "seconds" THEN input.seconds
  ELSE 0

\* updateCue, the record it builds: the copy of the cue with the field replaced
UpdatedCue(cue, field, value) ==
  IF field = "time"
  THEN [cue EXCEPT !.time = ParseTime(value),
                   !.sample_position = CalculateSamplePosition(ParseTime(value))]
  ELSE IF field = "label" THEN [cue EXCEPT !.label = value]
  ELSE [cue EXCEPT !.key = value]

\* an updateCue that stores the record without validating it
UpdateCue_Unvalidated(cues, index, field, value, duration) ==
  LET replaced == [cues EXCEPT ![index] = UpdatedCue(cues[index], field, value)]
  IN [errors |-> {},
      cues |-> IF field = "time" THEN SortByTime(replaced) ELSE replaced]

\* updateCue: the errors it sets for the index and the array it hands to onUpdate
\* (the array it was given when there are errors: onUpdate is not called)
UpdateCue(cues, index, field, value, duration) ==
  LET cue == UpdatedCue(cues[index], field, value)
      replaced == [cues EXCEPT ![index] = cue]
      errors == ValidateCue(cue, index, cues, duration)
  IN [errors |-> errors,
      cues |-> IF errors # {} THEN cues
               ELSE IF field = "time" THEN SortByTime(replaced) ELSE replaced]

\* deleteCue: cuePoints.filter((_, i) => i !== index)
DeleteCue(cues, index) ==
  SubSeq(cues, 1, index - 1) \o SubSeq(cues, index + 1, Len(cues))

\* handleDrop: splice the dragged cue out and back in at the adjusted drop index
\* (indices as the array counts them, from 0)
HandleDrop(cues, draggedIndex, dropIndex) ==
  IF draggedIndex = NULL \/ draggedIndex = dropIndex THEN cues
  ELSE LET draggedCue == cues[draggedIndex + 1]
           without == DeleteCue(cues, draggedIndex + 1)
           adjustedDropIndex == IF draggedIndex < dropIndex THEN dropIndex - 1 ELSE dropIndex
       IN SubSeq(without, 1, adjustedDropIndex) \o <<draggedCue>>
            \o SubSeq(without, adjustedDropIndex + 1, Len(without))

\* getKeyForSlot: the rows 1 2 3 4, Q W E R, A S D F, Z X C V of the 4x4 grid
SlotKeys ==
  <<"1", "2", "3", "4", "Q", "W", "E", "R", "A", "S", "D", "F", "Z", "X", "C", "V">>

GetKeyForSlot(slotIndex) ==
  IF slotIndex < Len(SlotKeys) THEN SlotKeys[slotIndex + 1] ELSE ToString(slotIndex + 1)

\* handleAddCue of UnifiedVideoEditor: [...cuePoints, newCue].sort(by time)
HandleAddCue(cues, newCue) == SortByTime(Append(cues, newCue))

\* the cue the grid builds for a slot: the slot's label and key, at the current time
NewCueAtSlot(slotIndex, currentTime) ==
  Cue(currentTime, CueLabel(slotIndex + 1), GetKeyForSlot(slotIndex))

\* handleAddCueAtSlot: onAddCue(newCue)
HandleAddCueAtSlot(cues, slotIndex, currentTime) ==
  HandleAddCue(cues, NewCueAtSlot(slotIndex, currentTime))

\* handleAddCueAtCurrentTime: the first empty slot is the one behind the last cue
HandleAddCueAtCurrentTime(cues, currentTime) ==
  IF Len(cues) >= MAX_CUE_SLOTS THEN cues
  ELSE HandleAddCueAtSlot(cues, Len(cues), currentTime)

\* JSON.stringify of a cue and JSON.parse of the text: an object with the fields
\* that are defined, each with its value
JsonOfCue(cue) == [f \in DOMAIN cue |-> cue[f]]

\* saveCuesToJSON: the file is the array of the cues' objects
SaveCuesToJSON(cues) ==
  [root |-> "array", items |-> [i \in 1..Len(cues) |-> JsonOfCue(cues[i])]]

\* typeof cue.time !== 'number' || !cue.label
InvalidItem(item) ==
  \/ "time" \notin DOMAIN item
  \/ "label" \notin DOMAIN item
  \/ item.label = ""

\* an import that forgets the keys
ImportedCue_NoKey(item, sampleRate) ==
  [time |-> item.time, label |-> item.label, key |-> "",
   sample_rate |-> sampleRate, sample_position |-> CalculateSamplePosition(item.time)]

\* the cue loadCuesFromJSON makes of a file item: key || '', sample_rate ||
\* sampleRate, sample_position || calculateSamplePosition(time)
ImportedCue(item, sampleRate) ==
  [time |-> item.time,
   label |-> item.label,
   key |-> IF "key" \in DOMAIN item THEN item.key ELSE "",
   sample_rate |-> IF "sample_rate" \in DOMAIN item /\ item.sample_rate # 0
                   THEN item.sample_rate ELSE sampleRate,
   sample_position |-> IF "sample_position" \in DOMAIN item /\ item.sample_position # 0
                       THEN item.sample_position
                       ELSE CalculateSamplePosition(item.time)]

\* an import that skips the malformed elements and takes the others
LoadCuesFromJSON_KeepValid(cues, file, sampleRate) ==
  IF file.root # "array" THEN [ok |-> FALSE, cues |-> cues]
  ELSE LET valid == SelectSeq(file.items, LAMBDA item : ~InvalidItem(item))
       IN [ok |-> TRUE,
           cues |-> SortByTime([i \in 1..Len(valid) |-> ImportedCue(valid[i], sampleRate)])]

\* loadCuesFromJSON (reader.onload): ok and the sorted cues, or the alert and the
\* registry as it was
LoadCuesFromJSON(cues, file, sampleRate) ==
  IF file.root # "array" \/ \E i \in 1..Len(file.items) : InvalidItem(file.items[i])
  THEN [ok |-> FALSE, cues |-> cues]
  ELSE [ok |-> TRUE,
        cues |-> SortByTime([i \in 1..Len(file.items) |-> ImportedCue(file.items[i], sampleRate)])]

\* ----------------------------------------------------------------------
\* useCueKeyboardMap.js
\* ----------------------------------------------------------------------

UpperCase ==
  <<"A", "B", "C", "D", "E", "F", "G", "H", "I", "J", "K", "L", "M",
    "N", "O", "P", "Q", "R", "S", "T", "U", "V", "W", "X", "Y", "Z">>

\* String.prototype.toLowerCase of a key (one character, or a named key)
ToLowerCase(k) ==
  IF \E i \in 1..Len(UpperCase) : UpperCase[i] = k
  THEN KeyOrder[9 + CHOOSE i \in 1..Len(UpperCase) : UpperCase[i] = k]
  ELSE k

\* Date.now(), in units of 10 ms
DateNow(t) == t + Epoch

\* keyMap.has(key); the Map is kept as its entries in insertion order
KeyMapHas(map, key) == \E i \in 1..Len(map) : map[i].key = key

\* keyMap.get(key): the entries under the key (a Map holds at most one)
KeyMapGet(map, key) == SelectSeq(map, LAMBDA e : e.key = key)

\* a key map that keeps an entry for every cue that carries a key
BuildKeyMap_KeepAll(cues) ==
  SelectSeq([i \in 1..Len(cues) |->
               [key |-> ToLowerCase(cues[i].key), cue |-> cues[i], index |-> i - 1]],
            LAMBDA e : e.cue.key # "")

\* a key map in which a later cue replaces an earlier one under the same key
BuildKeyMap_LastWins(cues) ==
  SelectSeq([i \in 1..Len(cues) |->
               [key |-> ToLowerCase(cues[i].key), cue |-> cues[i], index |-> i - 1]],
            LAMBDA e : /\ e.cue.key # ""
                       /\ \A j \in (e.index + 2)..Len(cues) :
                            cues[j].key = "" \/ ToLowerCase(cues[j].key) # e.key)

\* cuePoints.forEach: a cue with a key is entered under the lowercased key unless
\* the map already has that key
RECURSIVE BuildFrom(_, _, _)
BuildFrom(map, cues, i) ==
  IF i > Len(cues) THEN map
  ELSE BuildFrom(IF cues[i].key = "" \/ KeyMapHas(map, ToLowerCase(cues[i].key)) THEN map
                 ELSE Append(map, [key |-> ToLowerCase(cues[i].key),
                                   cue |-> cues[i], index |-> i - 1]),
                 cues, i + 1)

\* buildKeyMap
BuildKeyMap(cues) == BuildFrom(<< >>, cues, 1)

\* a filter that lets every event through while the hook is enabled
ShouldIgnoreEvent_Nothing(enabled, event) == ~enabled

\* shouldIgnoreEvent (tagName: target.tagName.toLowerCase())
ShouldIgnoreEvent(enabled, event) ==
  \/ ~enabled
  \/ event.ctrlKey \/ event.altKey \/ event.metaKey
  \/ event.tagName \in ExcludeTargets
  \/ event.isContentEditable

\* a dispatch without the debounce test
Debounced_Never(lastTriggerRef, key, t) == FALSE

\* lastTrigger && (now - lastTrigger) < debounceMs
Debounced(lastTriggerRef, key, t) ==
  /\ key \in DOMAIN lastTriggerRef
  /\ lastTriggerRef[key] # 0
  /\ DateNow(t) - lastTriggerRef[key] < DebounceMs

\* lastTriggerRef.current[key] = now
Stamp(lastTriggerRef, key, t) ==
  [k \in DOMAIN lastTriggerRef \cup {key} |->
     IF k = key THEN DateNow(t) ELSE lastTriggerRef[k]]

\* handleKeyPress: the hook's refs afterwards and the cues handed to onTriggerCue
HandleKeyPress(k, event, t) ==
  LET key == ToLowerCase(event.key)
      hits == KeyMapGet(k.keyMapRef, key)
  IN IF ShouldIgnoreEvent(k.enabled, event) \/ hits = << >>
        \/ Debounced(k.lastTriggerRef, key, t)
     THEN [kb |-> k, fired |-> << >>]
     ELSE [kb |-> [k EXCEPT !.lastTriggerRef = Stamp(k.lastTriggerRef, key, t),
                            !.totalTriggers = k.totalTriggers + 1,
                            !.lastTriggerTime = DateNow(t)],
           fired |-> [i \in 1..Len(hits) |-> hits[i].cue]]

\* triggerByKey: the cues handed to onTriggerCue
TriggerByKey(k, key) ==
  LET hits == KeyMapGet(k.keyMapRef, ToLowerCase(key))
  IN [i \in 1..Len(hits) |-> hits[i].cue]

\* isKeyMapped
IsKeyMapped(k, key) == KeyMapHas(k.keyMapRef, ToLowerCase(key))

\* getKeyMapping
GetKeyMapping(k) ==
  [i \in 1..Len(k.keyMapRef) |->
     [key |-> k.keyMapRef[i].key, label |-> k.keyMapRef[i].cue.label,
      time |-> k.keyMapRef[i].cue.time, index |-> k.keyMapRef[i].index]]

\* the listener effect (deps: enabled, onTriggerCue, buildKeyMap, handleKeyPress):
\* its cleanup removes the listener; enabled, it rebuilds the map and listens again
ListenerEffect(k, cues, enabled) ==
  IF ~enabled THEN [k EXCEPT !.enabled = FALSE, !.listening = FALSE]
  ELSE [k EXCEPT !.enabled = TRUE, !.listening = TRUE, !.keyMapRef = BuildKeyMap(cues)]

\* the registry is empty, the editor idle, the keyboard hook mounted and enabled
EditorIdle ==
  [editingId |-> NULL, validationErrors |-> << >>, draggedIndex |-> NULL, download |-> << >>]

KbIdle ==
  [enabled |-> TRUE, listening |-> TRUE, keyMapRef |-> << >>,
   lastTriggerRef |-> << >>, totalTriggers |-> 0, lastTriggerTime |-> NULL]

CueIdle ==
  /\ cuePoints = << >>
  /\ editor = EditorIdle
  /\ kb = KbIdle
  /\ activeCue = << >>

\* ----------------------------------------------------------------------
\* The state machine
\* ----------------------------------------------------------------------

\* the player and the synchroniser before anything is pressed
PlayerIdle ==
  /\ now = 0
  /\ wp = [audioContextRef |-> TRUE, audioBufferRef |-> TRUE, isReady |-> TRUE,
           audioSourceRef |-> NULL, audioStartTimeRef |-> NULL, cueOffsetRef |-> 0,
           isPlaying |-> FALSE, currentTime |-> 0]
  /\ sources = [i \in SourceIds |-> [state |-> "free", endsAt |-> 0]]
  /\ props = [isPlaying |-> FALSE, audioStartTime |-> NULL, cueOffset |-> 0,
              context |-> TRUE, videoElement |-> TRUE]
  /\ sync = [lastCorrectionTime |-> 0,
             stats |-> [corrections |-> 0, maxDrift |-> 0,
                        avgDrift |-> [sum |-> 0, n |-> 0], driftHistory |-> << >>],
             isActive |-> FALSE, periodicTimeoutRef |-> NULL, timers |-> {},
             videoTime |-> 0, videoDuration |-> NaNDur,
             call |-> NoCall, lastAppliedAt |-> NULL]
  /\ mounted = TRUE
  /\ ev = [op |-> "env", arg |-> 0, wasPlaying |-> FALSE, started |-> FALSE]

Init == PlayerIdle /\ CueIdle

World == [wp |-> wp, sources |-> sources, props |-> props]

\* VideoPlayer renders again when the owner's state changed: videoElement is videoRef.current
Rendered(old, new) == IF new = old THEN old ELSE [new EXCEPT !.videoElement = mounted]

\* the handler's result y is stored, the owner re-renders and the hook's effects run
Apply(y, throws) ==
  /\ wp' = y.wp
  /\ sources' = y.sources
  /\ props' = Rendered(props, y.props)
  /\ sync' = Commit(props, props', sync, now, throws)

\* the history variable: the operation, its argument, whether a jump found the player
\* playing, and whether createBufferSource and source.start went through
Event(op, arg, fail) ==
  ev' = IF "n" \in DOMAIN ev
        THEN [op |-> op, arg |-> IF op = "env" THEN 0 ELSE arg,
              wasPlaying |-> op = "Jump" /\ wp.isPlaying,
              started |-> op \in {"Play", "Jump"} /\ fail = "no",
              errors |-> {}, fired |-> << >>,
              n |-> ev.n, jumps |-> ev.jumps, cleared |-> ev.cleared]
        ELSE [op |-> op, arg |-> IF op = "env" THEN 0 ELSE arg,
              wasPlaying |-> op = "Jump" /\ wp.isPlaying,
              started |-> op \in {"Play", "Jump"} /\ fail = "no"]

\* the assignment video.currentTime = ... can only throw where it is made
SeekMade(throws) == throws => sync'.call.threw

\* a user operation leaves at most MaxSamples drift samples in the history
Room == Len(sync'.stats.driftHistory) <= MaxSamples

\* 'canplay': the duration is known, setIsVideoReady re-renders VideoPlayer
VideoCanPlay(d) ==
  /\ mounted /\ sync.videoDuration = NaNDur
  /\ props' = [props EXCEPT !.videoElement = TRUE]
  /\ \E throws \in BOOLEAN :
       /\ sync' = Commit(props, props', [sync EXCEPT !.videoDuration = d], now, throws)
       /\ SeekMade(throws)
  /\ Room
  /\ Event("env", d, "no")
  /\ UNCHANGED <<now, wp, sources, mounted, cuePoints, editor, kb, activeCue>>

\* togglePlayback while not playing
Play(fail) ==
  /\ ~wp.isPlaying /\ wp.isReady
  /\ FreeSources(sources) # {}
  /\ \E throws \in BOOLEAN :
       Apply(TogglePlayback(World, now, fail), throws) /\ SeekMade(throws)
  /\ Room
  /\ Event("Play", wp.currentTime, fail)
  /\ UNCHANGED <<now, mounted, cuePoints, editor, kb, activeCue>>

\* togglePlayback while playing
Pause ==
  /\ wp.isPlaying /\ wp.isReady
  /\ Apply(TogglePlayback(World, now, "no"), FALSE)
  /\ Event("Pause", 0, "no")
  /\ UNCHANGED <<now, mounted, cuePoints, editor, kb, activeCue>>

\* jumpToCue(time), from the keyboard or the cue grid
Jump(time, fail) ==
  /\ wp.audioBufferRef /\ wp.audioContextRef
  /\ FreeSources(StopAudio(World).sources) # {}
  /\ \E throws \in BOOLEAN :
       Apply(JumpToCue(World, time, now, fail), throws) /\ SeekMade(throws)
  /\ Room
  /\ Event("Jump", time, fail)
  /\ UNCHANGED <<now, mounted, cuePoints, editor, kb, activeCue>>

\* the 'ended' event of a source is delivered: it was stopped, or its buffer ran out
OnEnded(source) ==
  /\ \/ sources[source].state = "ending"
     \/ sources[source].state = "playing" /\ now >= sources[source].endsAt
  /\ Apply(OnEndedHandler([World EXCEPT !.sources[source] = [state |-> "free", endsAt |-> 0]], source), FALSE)
  /\ Event("OnEnded", source, "no")
  /\ UNCHANGED <<now, mounted, cuePoints, editor, kb, activeCue>>

\* a tick of setInterval(updateCurrentTime, 50)
TimeUpdate ==
  /\ wp.isPlaying
  /\ wp' = UpdateCurrentTime(wp, now)
  /\ wp' # wp
  /\ sync' = [sync EXCEPT !.call = NoCall]
  /\ Event("TimeUpdate", 0, "no")
  /\ UNCHANGED <<now, sources, props, mounted, cuePoints, editor, kb, activeCue>>

\* a pending timeout fires: periodicDriftCheck
WatchdogFire(tm) ==
  /\ tm \in sync.timers /\ now >= tm.due
  /\ \E throws \in BOOLEAN :
       /\ sync' = PeriodicDriftCheck([sync EXCEPT !.timers = sync.timers \ {tm},
                                                  !.call = NoCall], props, now, throws)
       /\ SeekMade(throws)
  /\ Event("WatchdogFire", tm.id, "no")
  /\ UNCHANGED <<now, wp, sources, props, mounted, cuePoints, editor, kb, activeCue>>

\* the follower plays while the owner is playing and the video can play
VideoRuns == props.isPlaying /\ sync.videoDuration # NaNDur

\* the follower's own clock slips by j against the master clock
VideoSlip(j) ==
  /\ VideoRuns
  /\ sync.videoTime + j >= 0 /\ sync.videoTime + j <= sync.videoDuration
  /\ Abs(DriftOf(sync, props, now)) <= DRIFT_THRESHOLD
  /\ sync' = [sync EXCEPT !.videoTime = sync.videoTime + j, !.call = NoCall]
  /\ Event("env", j, "no")
  /\ UNCHANGED <<now, wp, sources, props, mounted, cuePoints, editor, kb, activeCue>>

\* time passes; due timeouts and pending 'ended' events are served first
Advance(d) ==
  /\ now + d <= MaxClock
  /\ (now + d) % WATCHDOG_MS <= Burst
  /\ wp.isPlaying => UpdateCurrentTime(wp, now) = wp     \* the 50 ms tick has run
  /\ \A tm \in sync.timers : now < tm.due
  /\ \A i \in SourceIds :
       /\ sources[i].state # "ending"
       /\ sources[i].state = "playing" => now < sources[i].endsAt
  /\ now' = now + d
  /\ sync' = [sync EXCEPT !.call = NoCall,
                          !.videoTime = IF VideoRuns /\ @ < sync.videoDuration
                                        THEN Min(@ + d, sync.videoDuration) ELSE @]
  /\ Event("env", d, "no")
  /\ UNCHANGED <<wp, sources, props, mounted, cuePoints, editor, kb, activeCue>>

Next ==
  \/ \E d \in VideoDurations : VideoCanPlay(d)
  \/ \E fail \in {"no", "create", "start"} : Play(fail)
  \/ Pause
  \/ \E time \in CueTimes, fail \in {"no", "create", "start"} : Jump(time, fail)
  \/ \E source \in SourceIds : OnEnded(source)
  \/ TimeUpdate
  \/ \E tm \in sync.timers : WatchdogFire(tm)
  \/ \E j \in Jitters : VideoSlip(j)
  \/ \E d \in Steps : Advance(d)

Spec == Init /\ [][Next]_vars

\* ----------------------------------------------------------------------
\* The hook on its own: useVideoSync driven through its parameters and the
\* functions it returns, as its mock scenarios drive it
\* ----------------------------------------------------------------------

\* the parameters a caller can hand to the hook at this instant
HookProps ==
  [isPlaying : BOOLEAN, audioStartTime : {NULL, props.audioStartTime, now},
   cueOffset : HookOffsets, context : BOOLEAN, videoElement : BOOLEAN]

\* the caller re-renders the hook with new parameters
Render(p) ==
  /\ mounted /\ p # props
  /\ props' = p
  /\ \E throws \in BOOLEAN :
       /\ sync' = Commit(props, props', sync, now, throws)
       /\ SeekMade(throws)
  /\ Event("Render", Cardinality(sync.timers), "no")      \* timeouts pending before
  /\ UNCHANGED <<now, wp, sources, mounted, cuePoints, editor, kb, activeCue>>

\* the caller calls the forceSync function the hook returned
CallForceSync ==
  /\ mounted
  /\ \E throws \in BOOLEAN :
       /\ sync' = ForceSync([sync EXCEPT !.call = NoCall], props, now, throws)
       /\ SeekMade(throws)
  /\ Event("ForceSync", 0, "no")
  /\ UNCHANGED <<now, wp, sources, props, mounted, cuePoints, editor, kb, activeCue>>

\* the caller calls the getSyncStatus function the hook returned
CallGetSyncStatus ==
  /\ mounted
  /\ sync' = GetSyncStatus([sync EXCEPT !.call = NoCall], props, now)
  /\ Event("GetSyncStatus", 0, "no")
  /\ UNCHANGED <<now, wp, sources, props, mounted, cuePoints, editor, kb, activeCue>>

\* the component that uses the hook unmounts
Unmount ==
  /\ mounted
  /\ mounted' = FALSE
  /\ sync' = Teardown([sync EXCEPT !.call = NoCall])
  /\ Event("Unmount", Cardinality(sync.timers), "no")     \* timeouts pending before
  /\ UNCHANGED <<now, wp, sources, props, cuePoints, editor, kb, activeCue>>

HookNext ==
  \/ \E p \in HookProps : Render(p) /\ Room
  \/ CallForceSync /\ Room
  \/ CallGetSyncStatus /\ Room
  \/ Unmount
  \/ \E tm \in sync.timers : WatchdogFire(tm)
  \/ \E d \in Steps : Advance(d)

HookSpec == Init /\ [][HookNext]_vars

\* ----------------------------------------------------------------------
\* The drift statistics over long runs of samples: the hook is started and
\* stopped, its status is read (each reading records a sample) and the
\* follower moves between FollowerPositions; the clock stands still
\* ----------------------------------------------------------------------

\* every sample in the history is the same
Uniform(hist) == Cardinality({hist[i] : i \in 1..Len(hist)}) <= 1

\* started (playing, with an origin) or stopped, video and context present
StatsProps ==
  {p \in HookProps : /\ p.videoElement /\ p.context /\ p.cueOffset = 0
                     /\ p.isPlaying <=> p.audioStartTime # NULL}

\* the follower reports another position; it moves only after a stretch of equal samples
FollowerAt(v) ==
  /\ v # sync.videoTime
  /\ Uniform(sync.stats.driftHistory)
  /\ sync' = [sync EXCEPT !.videoTime = v, !.call = NoCall]
  /\ Event("env", v, "no")
  /\ UNCHANGED <<now, wp, sources, props, mounted, cuePoints, editor, kb, activeCue>>

StatsNext ==
  \/ \E p \in StatsProps : Render(p)
  \/ CallGetSyncStatus
  \/ \E v \in FollowerPositions : FollowerAt(v)

StatsSpec == Init /\ [][StatsNext]_vars

\* ----------------------------------------------------------------------
\* The expected position and one controller call, over chosen refs and clocks
\* ----------------------------------------------------------------------

ClockEnd == 1200

\* the player's clock stops after one whole recording has played out
PlayerEnd == 260

\* timeouts pending at one time when the hook's functions are called directly
MaxPending == 2

ClockNows == {0, 1150}
ClockSteps == {50, 150}
ClockOrigins == {0, 500}
ClockOffsets == {-30, 0, 1000}
ClockFollowers == {0, 500}
ClockDurations == {12000}

\* a hook that is playing with every resource, its refs and the clock chosen freely
ClockInit ==
  /\ now \in ClockNows
  /\ wp = [audioContextRef |-> TRUE, audioBufferRef |-> TRUE, isReady |-> TRUE,
           audioSourceRef |-> NULL, audioStartTimeRef |-> NULL, cueOffsetRef |-> 0,
           isPlaying |-> FALSE, currentTime |-> 0]
  /\ sources = [i \in SourceIds |-> [state |-> "free", endsAt |-> 0]]
  /\ \E origin \in ClockOrigins, offset \in ClockOffsets :
       props = [isPlaying |-> TRUE, audioStartTime |-> origin, cueOffset |-> offset,
                context |-> TRUE, videoElement |-> TRUE]
  /\ \E v \in ClockFollowers, d \in ClockDurations :
       sync = [lastCorrectionTime |-> 0,
               stats |-> [corrections |-> 0, maxDrift |-> 0,
                          avgDrift |-> [sum |-> 0, n |-> 0], driftHistory |-> << >>],
               isActive |-> FALSE, periodicTimeoutRef |-> NULL, timers |-> {},
               videoTime |-> v, videoDuration |-> d,
               call |-> NoCall, lastAppliedAt |-> NULL]
  /\ mounted = TRUE
  /\ ev = [op |-> "env", arg |-> 0, wasPlaying |-> FALSE, started |-> FALSE]
  /\ CueIdle

\* ctx.currentTime moves on
ClockTick(d) ==
  /\ now + d <= ClockEnd
  /\ now' = now + d
  /\ sync' = [sync EXCEPT !.call = NoCall]
  /\ Event("Tick", d, "no")
  /\ UNCHANGED <<wp, sources, props, mounted, cuePoints, editor, kb, activeCue>>

ClockNext ==
  \/ \E d \in ClockSteps : ClockTick(d)
  \/ CallForceSync /\ Room

ClockSpec == ClockInit /\ [][ClockNext]_vars

\* ----------------------------------------------------------------------
\* The cue registry: CuePointEditor and CuePointGrid over the owner's cuePoints
\* ----------------------------------------------------------------------

CurrentTimes == {27, 250}          \* the currentTime prop when a cue is added
TimeInputs ==                      \* what is typed into a time field
  {[form |-> "seconds", minutes |-> 0, seconds |-> 250],
   [form |-> "seconds", minutes |-> 0, seconds |-> -5],
   [form |-> "mm:ss", minutes |-> 0, seconds |-> 0]}
LabelInputs == {"", " ", "Cue 1"}   \* what is typed into a label field
KeyInputs == {"", "1"}             \* what is typed into a key field
ImportFiles ==                     \* files the user picks in Load JSON
  {[root |-> "object", items |-> << >>],
   [root |-> "array", items |-> <<[time |-> 27]>>],
   [root |-> "array", items |-> <<[time |-> 27, label |-> "Cue 2", key |-> "1"],
                                  [time |-> 0, label |-> "Cue 1", key |-> "1"]>>],
   [root |-> "array", items |-> <<[time |-> 0, label |-> "Cue 1"]>>],
   [root |-> "array", items |-> <<[time |-> 0, label |-> "Cue 1"], [time |-> 27]>>]}

\* the history variable of a registry operation: the errors it reported and the
\* cues it handed to onTriggerCue
\* registry and dispatch operations made so far
OpsSoFar == IF "n" \in DOMAIN ev THEN ev.n ELSE 0

\* the keyboard jumps made so far, [key, at]: the last one on each key
JumpsSoFar == IF "jumps" \in DOMAIN ev THEN ev.jumps ELSE {}

\* the keys whose debounce stamp clearDebounce has dropped since their last jump
ClearedSoFar == IF "cleared" \in DOMAIN ev THEN ev.cleared ELSE {}

DispatchEvent(op, arg, errors, fired, jumps, cleared) ==
  ev' = [op |-> op, arg |-> arg, wasPlaying |-> FALSE, started |-> FALSE,
         errors |-> errors, fired |-> fired, n |-> OpsSoFar + 1,
         jumps |-> jumps, cleared |-> cleared]

CueEvent(op, arg, errors, fired) ==
  DispatchEvent(op, arg, errors, fired, JumpsSoFar, ClearedSoFar)

\* a run makes at most MaxOps registry and dispatch operations
Budget == OpsSoFar < MaxOps

\* setCuePoints(cues): the owner re-renders and the listener effect runs
SetCuePoints(cues) ==
  /\ cuePoints' = cues
  /\ kb' = ListenerEffect(kb, cues, kb.enabled)

\* setValidationErrors(prev => ({...prev, [index]: errors}))
WithErrors(validationErrors, index, errors) ==
  [i \in DOMAIN validationErrors \cup {index} |->
     IF i = index THEN errors ELSE validationErrors[i]]

\* delete newErrors[index]
WithoutErrors(validationErrors, index) ==
  [i \in DOMAIN validationErrors \ {index} |-> validationErrors[i]]

\* "+ Add Cue" of the editor, in a registry of fewer than limit cues
EditorAddCueBelow(limit, currentTime) ==
  /\ Len(cuePoints) < limit
  /\ \E key \in GetNextAvailableKey(cuePoints) :
       SetCuePoints(AddCue(cuePoints, currentTime, key))
  /\ editor' = [editor EXCEPT !.editingId = Len(cuePoints)]
  /\ CueEvent("AddCue", currentTime, {}, << >>)
  /\ UNCHANGED <<now, playerVars, activeCue>>

EditorAddCue(currentTime) == EditorAddCueBelow(MaxCues, currentTime)

\* typing into the time, label or key field of row index (counted from 0)
EditorUpdateCue(index, field, value) ==
  /\ index < Len(cuePoints)
  /\ LET r == UpdateCue(cuePoints, index + 1, field, value, AudioDuration)
     IN /\ IF r.errors = {} THEN SetCuePoints(r.cues) ELSE UNCHANGED <<cuePoints, kb>>
        /\ editor' = [editor EXCEPT
                        !.validationErrors = WithErrors(editor.validationErrors, index, r.errors)]
        /\ CueEvent("UpdateCue", <<index, field, value>>, r.errors, << >>)
  /\ UNCHANGED <<now, playerVars, activeCue>>

\* the delete button of row index
EditorDeleteCue(index) ==
  /\ index < Len(cuePoints)
  /\ SetCuePoints(DeleteCue(cuePoints, index + 1))
  /\ editor' = [editor EXCEPT !.editingId = NULL,
                              !.validationErrors = WithoutErrors(editor.validationErrors, index)]
  /\ CueEvent("DeleteCue", index, {}, << >>)
  /\ UNCHANGED <<now, playerVars, activeCue>>

\* "Save JSON": the browser downloads the file
EditorSave ==
  /\ Len(cuePoints) > 0
  /\ editor' = [editor EXCEPT !.download = <<SaveCuesToJSON(cuePoints)>>]
  /\ CueEvent("Save", 0, {}, << >>)
  /\ UNCHANGED <<now, playerVars, cuePoints, kb, activeCue>>

\* "Load JSON" with a file, and the reader's onload
EditorLoad(file) ==
  /\ Len(file.items) <= MaxCues
  /\ LET r == LoadCuesFromJSON(cuePoints, file, SAMPLE_RATE)
     IN /\ IF r.ok THEN SetCuePoints(r.cues) ELSE UNCHANGED <<cuePoints, kb>>
        /\ editor' = IF r.ok THEN [editor EXCEPT !.validationErrors = << >>, !.editingId = NULL]
                     ELSE editor
        /\ CueEvent("Load", file, IF r.ok THEN {} ELSE {"file"}, << >>)
  /\ UNCHANGED <<now, playerVars, activeCue>>

\* a time field gets the focus, or loses it
EditorFocus(index) ==
  /\ index < Len(cuePoints) /\ editor.editingId # index
  /\ editor' = [editor EXCEPT !.editingId = index]
  /\ CueEvent("Focus", index, {}, << >>)
  /\ UNCHANGED <<now, playerVars, cuePoints, kb, activeCue>>

EditorBlur ==
  /\ editor.editingId # NULL
  /\ editor' = [editor EXCEPT !.editingId = NULL]
  /\ CueEvent("Blur", 0, {}, << >>)
  /\ UNCHANGED <<now, playerVars, cuePoints, kb, activeCue>>

\* a row that is not being edited is dragged
EditorDragStart(index) ==
  /\ index < Len(cuePoints) /\ editor.editingId # index /\ editor.draggedIndex # index
  /\ editor' = [editor EXCEPT !.draggedIndex = index]
  /\ CueEvent("DragStart", index, {}, << >>)
  /\ UNCHANGED <<now, playerVars, cuePoints, kb, activeCue>>

\* the dragged row is dropped on row dropIndex
EditorDrop(dropIndex) ==
  /\ dropIndex < Len(cuePoints)
  /\ editor.draggedIndex # NULL /\ editor.draggedIndex # dropIndex
  /\ editor.draggedIndex < Len(cuePoints)
  /\ SetCuePoints(HandleDrop(cuePoints, editor.draggedIndex, dropIndex))
  /\ editor' = [editor EXCEPT !.draggedIndex = NULL]
  /\ CueEvent("Drop", <<editor.draggedIndex, dropIndex>>, {}, << >>)
  /\ UNCHANGED <<now, playerVars, activeCue>>

\* "+ Add Cue" of the grid
GridAddCueAtCurrentTime(currentTime) ==
  /\ Len(cuePoints) < MaxCues
  /\ SetCuePoints(HandleAddCueAtCurrentTime(cuePoints, currentTime))
  /\ activeCue' = <<NewCueAtSlot(Len(cuePoints), currentTime)>>
  /\ CueEvent("GridAdd", currentTime, {}, << >>)
  /\ UNCHANGED <<now, playerVars, editor>>

\* a click on the empty slot slotIndex of the grid
GridAddCueAtSlot(slotIndex, currentTime) ==
  /\ Len(cuePoints) < MaxCues
  /\ slotIndex >= Len(cuePoints) /\ slotIndex < MAX_CUE_SLOTS
  /\ SetCuePoints(HandleAddCueAtSlot(cuePoints, slotIndex, currentTime))
  /\ activeCue' = <<NewCueAtSlot(slotIndex, currentTime)>>
  /\ CueEvent("GridAddAtSlot", <<slotIndex, currentTime>>, {}, << >>)
  /\ UNCHANGED <<now, playerVars, editor>>

\* "Clear All": clearCues
ClearCues ==
  /\ Len(cuePoints) > 0
  /\ SetCuePoints(<< >>)
  /\ activeCue' = << >>
  /\ CueEvent("Clear", 0, {}, << >>)
  /\ UNCHANGED <<now, playerVars, editor>>

GridSlots == {1}                   \* empty slots that are clicked

RegistryNext ==
  \/ \E t \in CurrentTimes : EditorAddCue(t) /\ Budget
  \/ \E i \in 0..(MaxCues - 1), v \in TimeInputs : EditorUpdateCue(i, "time", v) /\ Budget
  \/ \E i \in 0..(MaxCues - 1), v \in LabelInputs : EditorUpdateCue(i, "label", v) /\ Budget
  \/ \E i \in 0..(MaxCues - 1), v \in KeyInputs : EditorUpdateCue(i, "key", v) /\ Budget
  \/ \E i \in 0..(MaxCues - 1) : EditorDeleteCue(i) /\ Budget
  \/ \E i \in 0..(MaxCues - 1) : EditorFocus(i) /\ Budget
  \/ EditorBlur /\ Budget
  \/ \E i \in 0..(MaxCues - 1) : EditorDragStart(i) /\ Budget
  \/ \E i \in 0..(MaxCues - 1) : EditorDrop(i) /\ Budget
  \/ \E file \in ImportFiles : EditorLoad(file) /\ Budget
  \/ \E t \in CurrentTimes : GridAddCueAtCurrentTime(t) /\ Budget
  \/ \E slot \in GridSlots, t \in CurrentTimes : GridAddCueAtSlot(slot, t) /\ Budget
  \/ ClearCues /\ Budget

RegistrySpec == Init /\ [][RegistryNext]_vars

\* ----------------------------------------------------------------------
\* Key assignment: "+ Add Cue" over registries whose cues already carry keys
\* ----------------------------------------------------------------------

\* a registry, sorted by position, whose cues carry the chosen symbols among the
\* first MaxKeyed of the scan order, after a cue without a key when keyless
KeyedRegistry(chosen, keyless) ==
  LET all == [i \in 1..MaxKeyed |-> Cue(i, CueLabel(i), KeyOrder[i])]
      IsChosen(cue) == chosen[cue.time]
  IN (IF keyless THEN <<Cue(0, "Intro", "")>> ELSE << >>) \o SelectSeq(all, IsChosen)

KeyedInit ==
  /\ PlayerIdle
  /\ \E chosen \in [1..MaxKeyed -> BOOLEAN], keyless \in BOOLEAN :
       cuePoints = KeyedRegistry(chosen, keyless)
  /\ editor = EditorIdle
  /\ kb = ListenerEffect(KbIdle, cuePoints, TRUE)
  /\ activeCue = << >>

\* "+ Add Cue", twice at most
KeyedNext ==
  \E t \in CurrentTimes : EditorAddCueBelow(MaxKeyed + 2, t) /\ OpsSoFar < 2

KeyedSpec == KeyedInit /\ [][KeyedNext]_vars

\* ----------------------------------------------------------------------
\* Key dispatch: useCueKeyboardMap over the registry the grid fills
\* ----------------------------------------------------------------------

DispatchTimes == {27, 120}         \* the currentTime prop when the grid adds a cue
DispatchSlots == {0, 4}            \* the slots clicked: keys "1" and "Q"
DispatchSteps == {7, 8}            \* amounts of time between two operations
AudioReady == {FALSE, TRUE}        \* the audio is still being decoded, or is ready

Key(key) ==
  [key |-> key, ctrlKey |-> FALSE, altKey |-> FALSE, metaKey |-> FALSE, shiftKey |-> FALSE,
   tagName |-> "body", isContentEditable |-> FALSE]

KeyEvents ==                       \* the keydown events delivered to document
  {Key("q"), Key("1"),
   [Key("Q") EXCEPT !.shiftKey = TRUE],
   [Key("q") EXCEPT !.ctrlKey = TRUE],
   [Key("q") EXCEPT !.altKey = TRUE],
   [Key("q") EXCEPT !.metaKey = TRUE],
   [Key("q") EXCEPT !.tagName = "div", !.isContentEditable = TRUE]}
  \cup {[Key("q") EXCEPT !.tagName = tag] : tag \in {"input", "textarea", "select"}}

ApiKeys == {"Q"}                   \* keys handed to triggerByKey and isKeyMapped

\* handleTriggerCue: setActiveCue(cueData), then jumpToCue(cueTime) of the player
HandleTriggerCue(cueData) ==
  /\ activeCue' = <<cueData>>
  /\ FreeSources(StopAudio(World).sources) # {}
  /\ \E throws \in BOOLEAN :
       Apply(JumpToCue(World, cueData.time, now, "no"), throws) /\ SeekMade(throws)
  /\ Room
  /\ UNCHANGED mounted

\* the value the key map holds for a cue: { ...cue, index }
CueData(entry) ==
  [f \in DOMAIN entry.cue \cup {"index"} |->
     IF f = "index" THEN entry.index ELSE entry.cue[f]]

\* a keydown event reaches document: handleKeyPress, when the listener is installed
KeyDown(event) ==
  /\ kb.listening
  /\ LET r == HandleKeyPress(kb, event, now)
         key == ToLowerCase(event.key)
     IN /\ Len(r.fired) > 0 => kb.totalTriggers < MaxTriggers
        /\ kb' = r.kb
        /\ IF Len(r.fired) = 0 THEN UNCHANGED <<playerVars, activeCue>>
           ELSE HandleTriggerCue(CueData(KeyMapGet(kb.keyMapRef, key)[1]))
        /\ DispatchEvent("KeyDown", event, {}, r.fired,
                         IF Len(r.fired) = 0 THEN JumpsSoFar
                         ELSE {j \in JumpsSoFar : j.key # key} \cup {[key |-> key, at |-> now]},
                         IF Len(r.fired) = 0 THEN ClearedSoFar ELSE ClearedSoFar \ {key})
  /\ UNCHANGED <<now, cuePoints, editor>>

\* triggerByKey(key), called by the owner of the hook
CallTriggerByKey(key) ==
  /\ LET fired == TriggerByKey(kb, key)
     IN /\ IF Len(fired) = 0 THEN UNCHANGED <<playerVars, activeCue>>
           ELSE HandleTriggerCue(CueData(KeyMapGet(kb.keyMapRef, ToLowerCase(key))[1]))
        /\ CueEvent("TriggerByKey", key, {}, fired)
  /\ UNCHANGED <<now, cuePoints, editor, kb>>

\* isKeyMapped(key), called by the owner of the hook: the entry found, if any
CallIsKeyMapped(key) ==
  /\ CueEvent("IsKeyMapped", key, {},
              IF IsKeyMapped(kb, key) THEN TriggerByKey(kb, key) ELSE << >>)
  /\ UNCHANGED <<now, playerVars, cuePoints, editor, kb, activeCue>>

\* getKeyMapping(), called by the owner of the hook
CallGetKeyMapping ==
  /\ CueEvent("GetKeyMapping", 0, {}, GetKeyMapping(kb))
  /\ UNCHANGED <<now, playerVars, cuePoints, editor, kb, activeCue>>

\* clearDebounce(), called by the owner of the hook
CallClearDebounce ==
  /\ kb.lastTriggerRef # << >>
  /\ kb' = [kb EXCEPT !.lastTriggerRef = << >>]
  /\ DispatchEvent("ClearDebounce", 0, {}, << >>, JumpsSoFar,
                   ClearedSoFar \cup {j.key : j \in JumpsSoFar})
  /\ UNCHANGED <<now, playerVars, cuePoints, editor, activeCue>>

\* the owner renders the hook with another value of enabled
SetEnabled(enabled) ==
  /\ enabled # kb.enabled
  /\ kb' = ListenerEffect(kb, cuePoints, enabled)
  /\ CueEvent("SetEnabled", enabled, {}, << >>)
  /\ UNCHANGED <<now, playerVars, cuePoints, editor, activeCue>>

\* time passes between two operations; the 50 ms tick and pending 'ended' events
\* are served first (no timeout of the synchroniser comes due before DispatchEnd)
Wait(d) ==
  /\ now + d <= DispatchEnd
  /\ wp.isPlaying => UpdateCurrentTime(wp, now) = wp
  /\ \A tm \in sync.timers : now < tm.due
  /\ \A i \in SourceIds :
       /\ sources[i].state # "ending"
       /\ sources[i].state = "playing" => now < sources[i].endsAt
  /\ now' = now + d
  /\ sync' = [sync EXCEPT !.call = NoCall,
                          !.videoTime = IF VideoRuns /\ @ < sync.videoDuration
                                        THEN Min(@ + d, sync.videoDuration) ELSE @]
  /\ Event("env", d, "no")
  /\ UNCHANGED <<wp, sources, props, mounted, cuePoints, editor, kb, activeCue>>

DispatchInit ==
  /\ now = 0
  /\ \E ready \in AudioReady :
       wp = [audioContextRef |-> TRUE, audioBufferRef |-> ready, isReady |-> ready,
             audioSourceRef |-> NULL, audioStartTimeRef |-> NULL, cueOffsetRef |-> 0,
             isPlaying |-> FALSE, currentTime |-> 0]
  /\ sources = [i \in SourceIds |-> [state |-> "free", endsAt |-> 0]]
  /\ props = [isPlaying |-> FALSE, audioStartTime |-> NULL, cueOffset |-> 0,
              context |-> TRUE, videoElement |-> TRUE]
  /\ sync = [lastCorrectionTime |-> 0,
             stats |-> [corrections |-> 0, maxDrift |-> 0,
                        avgDrift |-> [sum |-> 0, n |-> 0], driftHistory |-> << >>],
             isActive |-> FALSE, periodicTimeoutRef |-> NULL, timers |-> {},
             videoTime |-> 0, videoDuration |-> NaNDur,
             call |-> NoCall, lastAppliedAt |-> NULL]
  /\ mounted = TRUE
  /\ ev = [op |-> "env", arg |-> 0, wasPlaying |-> FALSE, started |-> FALSE]
  /\ CueIdle

DispatchNext ==
  \/ \E event \in KeyEvents : KeyDown(event) /\ Budget
  \/ \E key \in ApiKeys : CallTriggerByKey(key) /\ Budget
  \/ \E key \in ApiKeys : CallIsKeyMapped(key) /\ Budget
  \/ CallGetKeyMapping /\ Budget
  \/ CallClearDebounce /\ Budget
  \/ \E enabled \in BOOLEAN : SetEnabled(enabled) /\ Budget
  \/ \E slot \in DispatchSlots, t \in DispatchTimes : GridAddCueAtSlot(slot, t) /\ Budget
  \/ ClearCues /\ Budget
  \/ \E d \in DispatchSteps : Wait(d)
  \/ \E source \in SourceIds : OnEnded(source)
  \/ TimeUpdate

DispatchSpec == DispatchInit /\ [][DispatchNext]_vars

\* ----------------------------------------------------------------------
\* Export and import: "Save JSON" and "Load JSON" of the editor
\* ----------------------------------------------------------------------

\* the cues a registry can hold: made by addCue, updateCue and the grid, or
\* imported from a file with a sample_rate and a sample_position of its own
\* (offset: sample_position - calculateSamplePosition(time))
SavedCues ==
  {[time |-> time, label |-> label, key |-> key, sample_rate |-> rate,
    sample_position |-> CalculateSamplePosition(time) + offset] :
     time \in {0, 27, 240}, label \in {"Cue 1", "Intro"}, key \in {"", "1", "Q"},
     rate \in {48000, 44100}, offset \in {0, 5}}

\* the valid registries of one or two cues, sorted by position
SavedRegistries ==
  {<<a>> : a \in SavedCues}
  \cup {pair \in {<<a, b>> : a \in SavedCues, b \in SavedCues} : pair[1].time <= pair[2].time}

RoundTripInit ==
  /\ PlayerIdle
  /\ cuePoints \in SavedRegistries
  /\ \A i \in DOMAIN cuePoints : ValidateCue(cuePoints[i], i, cuePoints, AudioDuration) = {}
  /\ editor = EditorIdle
  /\ kb = ListenerEffect(KbIdle, cuePoints, TRUE)
  /\ activeCue = << >>

\* "Load JSON" with the file "Save JSON" downloaded last
EditorLoadSaved ==
  /\ editor.download # << >>
  /\ EditorLoad(editor.download[1])

RoundTripNext ==
  \/ EditorSave /\ Budget
  \/ EditorLoadSaved /\ Budget

RoundTripSpec == RoundTripInit /\ [][RoundTripNext]_vars

\* ----------------------------------------------------------------------
\* Properties
\* ----------------------------------------------------------------------

\* what the hook computes from its refs at this instant
Expected == CalculateExpectedVideoTime(props, now)
Drift == DriftOf(sync, props, now)

\* the expected position lies inside the video (or the duration is 0 or unknown)
ExpectedInRange == sync.videoDuration <= 0 \/ Expected <= sync.videoDuration

\* C1: a controller call made less than the throttle interval (100 ms) after the
\* last applied correction applies nothing: two applied corrections are never
\* closer than the interval, and the throttled call changes neither the follower
\* position, nor the correction count, nor lastCorrectionTime.
C1_ThrottleSpacing ==
  [][(/\ sync'.call.ran
      /\ sync.lastAppliedAt # NULL
      /\ PerfNow(now') - sync.lastAppliedAt < CORRECTION_THROTTLE_MS)
     => (/\ ~sync'.call.applied
         /\ ~sync'.call.changed
         /\ sync'.videoTime = sync.videoTime
         /\ sync'.lastCorrectionTime = sync.lastCorrectionTime)]_vars

\* a correction-worthy call 10..90 ms after an applied correction was suppressed
C1_Witness ==
  /\ sync.call.ran /\ sync.call.throttled
  /\ sync.lastAppliedAt # NULL
  /\ PerfNow(now) - sync.lastAppliedAt > 0
  /\ PerfNow(now) - sync.lastAppliedAt < CORRECTION_THROTTLE_MS
  /\ Abs(Drift) > DRIFT_THRESHOLD
  /\ ExpectedInRange

\* C2: the correction forced by a jump is not throttled: after a jump made while
\* playing, however recent the last correction, the follower is within epsilon
\* of the new session's expected position (the seek being accepted and the
\* expected position inside the video).
C2_JumpCorrectsAtOnce ==
  (/\ ev.op = "Jump" /\ ev.wasPlaying /\ ev.started
   /\ ~sync.call.threw
   /\ ExpectedInRange)
  => (/\ ~sync.call.throttled
      /\ Abs(sync.videoTime - Expected) <= EPSILON)

\* C3 as stated: a jump keeps the state it found: idle stays idle (no source
\* started, the target held as resting position), playing stays playing with the
\* target as offset.
C3_JumpKeepsState ==
  /\ (ev.op = "Jump" /\ ~ev.wasPlaying)
       => (~wp.isPlaying /\ wp.audioSourceRef = NULL /\ wp.cueOffsetRef = ev.arg)
  /\ (ev.op = "Jump" /\ ev.wasPlaying /\ ev.started)
       => (wp.isPlaying /\ wp.cueOffsetRef = ev.arg)

\* C3: a jump whose source starts leaves the player playing a new session with
\* offset = target and origin = now, whether it found the player idle or playing;
\* a jump whose source fails to start leaves it idle.
C3_JumpStartsPlayback ==
  ev.op = "Jump" =>
    IF ev.started
    THEN /\ wp.isPlaying /\ wp.audioSourceRef # NULL
         /\ sources[wp.audioSourceRef].state = "playing"
         /\ wp.cueOffsetRef = ev.arg /\ wp.audioStartTimeRef = now
         /\ props.isPlaying /\ props.cueOffset = ev.arg /\ props.audioStartTime = now
    ELSE /\ ~wp.isPlaying /\ wp.audioSourceRef = NULL
         /\ ~props.isPlaying /\ props.audioStartTime = NULL

\* a jump found the player idle and left it playing at the target
C3_Witness ==
  /\ ev.op = "Jump" /\ ~ev.wasPlaying /\ ev.started
  /\ wp.isPlaying /\ props.isPlaying
  /\ wp.cueOffsetRef = ev.arg
  /\ now > 0

\* C4: the 'ended' callback of a source that is no longer the current one is
\* inert: it does not stop the current source, does not clear the session and
\* does not report isPlaying = false; the sync system keeps running.
C4_StaleEndedInert ==
  [][(ev'.op = "OnEnded" /\ wp.audioSourceRef # ev'.arg)
     => (/\ wp' = wp
         /\ props' = props
         /\ wp.audioSourceRef # NULL
              => sources'[wp.audioSourceRef] = sources[wp.audioSourceRef]
         /\ sync'.isActive = sync.isActive
         /\ sync'.timers = sync.timers)]_vars

\* the callback of a replaced source was delivered while its successor plays
C4_Witness ==
  /\ ev.op = "OnEnded"
  /\ wp.isPlaying /\ props.isPlaying
  /\ wp.audioSourceRef # NULL /\ wp.audioSourceRef # ev.arg
  /\ sources[wp.audioSourceRef].state = "playing"
  /\ sync.isActive

\* C5: origin and offset are replaced together: whenever either member of a live
\* pair changes, in the player or in the hook's props, both are those of the play
\* or jump just executed, and while playing the hook computes from the player's pair.
C5_SessionPairAtomic ==
  [][/\ (/\ wp'.audioStartTimeRef # NULL
         /\ <<wp'.audioStartTimeRef, wp'.cueOffsetRef>>
              # <<wp.audioStartTimeRef, wp.cueOffsetRef>>)
        => (/\ ev'.op \in {"Play", "Jump"}
            /\ wp'.audioStartTimeRef = now
            /\ wp'.cueOffsetRef = ev'.arg)
     /\ (/\ props'.audioStartTime # NULL
         /\ <<props'.audioStartTime, props'.cueOffset>>
              # <<props.audioStartTime, props.cueOffset>>)
        => (/\ ev'.op \in {"Play", "Jump"}
            /\ props'.audioStartTime = now
            /\ props'.cueOffset = ev'.arg)
     /\ props'.isPlaying
        => (/\ wp'.isPlaying
            /\ props'.audioStartTime = wp'.audioStartTimeRef
            /\ props'.cueOffset = wp'.cueOffsetRef)]_vars

\* a jump replaced a running session and the drift was sampled against the new pair
C5_Witness ==
  /\ ev.op = "Jump" /\ ev.wasPlaying /\ ev.started
  /\ now > 0
  /\ props.audioStartTime = now /\ props.cueOffset = ev.arg
  /\ wp.audioStartTimeRef = now /\ wp.cueOffsetRef = ev.arg
  /\ sync.call.ran /\ ~sync.call.throttled

\* C6: a controller call that finds |drift| <= threshold (0.05 s) is a no-op:
\* follower position, correction count and lastCorrectionTime stay as they were.
C6_WithinThresholdNoOp ==
  [][(/\ sync'.call.ran
      /\ Abs(sync.videoTime - CalculateExpectedVideoTime(props', now')) <= DRIFT_THRESHOLD)
     => (/\ ~sync'.call.applied
         /\ ~sync'.call.changed
         /\ sync'.videoTime = sync.videoTime
         /\ sync'.lastCorrectionTime = sync.lastCorrectionTime)]_vars

\* an unthrottled call found a drift above epsilon and within the threshold
C6_Witness ==
  /\ sync.call.ran /\ ~sync.call.throttled
  /\ Abs(Drift) > EPSILON /\ Abs(Drift) <= DRIFT_THRESHOLD
  /\ ~sync.call.changed

\* C7 as stated: right after every applied correction the follower is within
\* epsilon of the expected position, also when that lies beyond the duration.
C7_WithinEpsilonOfExpected ==
  sync.call.applied => Abs(sync.videoTime - Expected) <= EPSILON

\* C7: right after every applied correction the follower is within epsilon of
\* min(expected, duration) when the duration is known and positive, and of the
\* expected position otherwise; so within epsilon of the expected position
\* whenever that does not lie beyond the duration.
C7_WithinEpsilonOfClamped ==
  sync.call.applied =>
    /\ Abs(sync.videoTime - (IF sync.videoDuration > 0
                             THEN Min(Expected, sync.videoDuration)
                             ELSE Expected)) <= EPSILON
    /\ ExpectedInRange => Abs(sync.videoTime - Expected) <= EPSILON

\* a correction was applied while the expected position lay beyond the duration
C7_Witness ==
  /\ sync.call.applied
  /\ sync.videoDuration > 0
  /\ Expected > sync.videoDuration + EPSILON

\* C8: every position the controller assigns lies in [0, duration], also when
\* the duration is reported as 0.
C8_AssignedWithinDuration ==
  sync.call.applied =>
    /\ sync.videoTime >= 0
    /\ sync.videoDuration # NaNDur => sync.videoTime <= sync.videoDuration

\* C9: a periodic check that runs while playing does not leave a drift above the
\* threshold (0.05 s) standing, drifts between the threshold and twice the
\* threshold included (the seek being accepted, the throttle interval over and
\* the expected position inside the video).
C9_DriftAboveThresholdCorrected ==
  (/\ ev.op = "WatchdogFire"
   /\ props.isPlaying /\ sync.isActive
   /\ ~sync.call.threw /\ ~sync.call.throttled
   /\ ExpectedInRange)
  => Abs(Drift) <= DRIFT_THRESHOLD

\* C10: every tick of the fast (50 ms) timer samples the drift and calls the
\* correction controller.
C10_FastTickDrivesController ==
  [][ev'.op = "TimeUpdate"
     => (/\ sync'.call.ran
         /\ sync'.stats.driftHistory # sync.stats.driftHistory)]_vars

\* C11: after a pause (isPlaying false) or the teardown of the hook no watchdog
\* timeout is pending and the sync system is inactive; a watchdog callback runs
\* only while playing and mounted, so none samples or seeks until the next play.
C11_NoTimerAfterStop ==
  /\ (~props.isPlaying \/ ~mounted)
       => (sync.timers = {} /\ sync.periodicTimeoutRef = NULL /\ ~sync.isActive)
  /\ ev.op = "WatchdogFire" => (props.isPlaying /\ mounted)

\* a pause found a watchdog timeout pending and cancelled it
C11_Witness ==
  /\ ev.op = "Render" /\ ev.arg > 0
  /\ ~props.isPlaying /\ props.videoElement /\ props.context
  /\ sync.timers = {}

\* C12: while isPlaying is false no operation of the hook (watchdog tick,
\* forceSync, getSyncStatus) appends to the drift history, changes maxDrift,
\* avgDrift or the correction count, or assigns the follower position.
C12_NoActivityWhilePaused ==
  [][(/\ ~props'.isPlaying
      /\ ev'.op \in {"WatchdogFire", "ForceSync", "GetSyncStatus"})
     => (sync'.stats = sync.stats /\ sync'.videoTime = sync.videoTime)]_vars

\* the condition of the lifecycle effect
SyncWanted ==
  props.isPlaying /\ props.videoElement /\ props.context /\ props.audioStartTime # NULL

\* C13: the sync system is active, with its watchdog timeout scheduled, exactly
\* when isPlaying is true and the video element, the audio context and a non-null
\* origin are present; otherwise it is dormant and no timeout is scheduled.
C13_ActiveIffPlayingWithResources ==
  /\ sync.isActive <=> (mounted /\ SyncWanted)
  /\ sync.isActive
       => (/\ sync.periodicTimeoutRef # NULL
           /\ \E tm \in sync.timers : tm.id = sync.periodicTimeoutRef)
  /\ ~sync.isActive => (sync.timers = {} /\ sync.periodicTimeoutRef = NULL)

\* playing with an origin and a context, but no video element: dormant
C13_Witness ==
  /\ mounted /\ props.isPlaying /\ props.context /\ props.audioStartTime # NULL
  /\ ~props.videoElement
  /\ ~sync.isActive /\ sync.timers = {}
  /\ now > 0

\* C14: a jump made while playing does not clear the drift statistics: the
\* correction count and maxDrift do not drop and the history loses no sample.
C14_StatsPersistAcrossJump ==
  [][(/\ ev'.op = "Jump" /\ ev'.wasPlaying /\ ev'.started
      /\ props.isPlaying /\ props'.isPlaying)
     => (/\ sync'.stats.corrections >= sync.stats.corrections
         /\ sync'.stats.maxDrift >= sync.stats.maxDrift
         /\ Len(sync'.stats.driftHistory) >= Len(sync.stats.driftHistory))]_vars

\* C15: the drift history never holds more than 100 samples and every sample is
\* non-negative; a sample taken at capacity evicts the oldest one (first in,
\* first out) and is appended at the end.
C15_HistoryBoundedFifo ==
  /\ [](/\ Len(sync.stats.driftHistory) <= HISTORY_CAP
        /\ \A i \in 1..Len(sync.stats.driftHistory) : sync.stats.driftHistory[i] >= 0)
  /\ [][(ev'.op = "GetSyncStatus" /\ sync'.stats # sync.stats)
        => sync'.stats.driftHistory =
             Append(IF Len(sync.stats.driftHistory) = HISTORY_CAP
                    THEN Tail(sync.stats.driftHistory)
                    ELSE sync.stats.driftHistory,
                    Abs(Drift))]_vars

\* a full history whose oldest sample was just evicted: the maximum recorded is a
\* sample the history no longer holds
C15_Witness ==
  /\ ev.op = "GetSyncStatus"
  /\ Len(sync.stats.driftHistory) = HISTORY_CAP
  /\ \A i \in 1..HISTORY_CAP : sync.stats.driftHistory[i] < sync.stats.maxDrift

\* C16 as stated: once a sample has been taken, avgDrift is the mean and maxDrift
\* the maximum of the samples the history currently retains, also after more than
\* 100 samples.
C16_StatsOfRetainedSamples ==
  Len(sync.stats.driftHistory) > 0
    => /\ sync.stats.avgDrift = [sum |-> SumOf(sync.stats.driftHistory, 1, Len(sync.stats.driftHistory)),
                                 n |-> Len(sync.stats.driftHistory)]
       /\ sync.stats.maxDrift = MaxOf(sync.stats.driftHistory, 1, Len(sync.stats.driftHistory))

\* C16 amended: avgDrift is the mean of the retained samples; maxDrift is the
\* peak of every sample taken since the statistics were last reset, evicted ones
\* included: each sample raises it to Max(maxDrift, sample), it never falls below
\* a retained sample and an eviction never lowers it.
C16_MeanOfRetainedPeakOfAll ==
  /\ [](Len(sync.stats.driftHistory) > 0
        => /\ sync.stats.avgDrift.sum = SumOf(sync.stats.driftHistory, 1, Len(sync.stats.driftHistory))
           /\ sync.stats.avgDrift.n = Len(sync.stats.driftHistory)
           /\ \A i \in 1..Len(sync.stats.driftHistory) :
                 sync.stats.driftHistory[i] <= sync.stats.maxDrift)
  /\ [][(ev'.op = "GetSyncStatus" /\ sync'.stats # sync.stats)
        => sync'.stats.maxDrift = Max(sync.stats.maxDrift, Abs(Drift))]_vars

\* more than 100 samples were taken and the peak has left the history: the
\* recorded maximum exceeds the maximum of the 100 retained samples
C16_Witness ==
  /\ Len(sync.stats.driftHistory) = HISTORY_CAP
  /\ sync.stats.maxDrift > MaxOf(sync.stats.driftHistory, 1, HISTORY_CAP)
  /\ sync.stats.avgDrift.n = HISTORY_CAP

\* C17: a call of getSyncStatus leaves the drift history, maxDrift, avgDrift and
\* the correction count as they were, however often it is made.
C17_GetSyncStatusReadOnly ==
  [][ev'.op = "GetSyncStatus" => sync'.stats = sync.stats]_vars

ScenarioA ==
  /\ props.context /\ props.videoElement
  /\ props.audioStartTime = 500 /\ props.cueOffset = 1000 /\ now = 1150

\* C19 as stated: in scenario A with the follower at 5.0 s the expected position
\* is 11.5 s and the drift -6.5 s, and the correction moves the follower to 11.5 s.
C19_ScenarioA_AsStated ==
  /\ []((ScenarioA /\ sync.videoTime = 500) => (Expected = 1150 /\ Drift = -650))
  /\ [][(ScenarioA /\ sync.videoTime = 500 /\ ev'.op = "ForceSync" /\ ~sync'.call.threw)
        => (sync'.call.applied /\ sync'.videoTime = 1150)]_vars

\* C19 amended: in scenario A with the follower at 5.0 s the expected position is
\* 10.0 + (11.5 - 5.0) = 16.5 s and the drift -11.5 s; the drift is beyond the
\* 0.05 s threshold, the correction fires and moves the follower to 16.5 s.
C19_ScenarioA ==
  /\ []((ScenarioA /\ sync.videoTime = 500)
        => (Expected = 1650 /\ Drift = -1150 /\ NeedsCorrection(Abs(Drift))))
  /\ [][(ScenarioA /\ sync.videoTime = 500 /\ ev'.op = "ForceSync" /\ ~sync'.call.threw)
        => (/\ sync'.call.applied
            /\ sync'.videoTime = 1650
            /\ sync'.stats.corrections = sync.stats.corrections + 1)]_vars

\* scenario A after the controller call: the sample of 11.5 s was taken with the
\* follower at 5.0 s and the follower now stands at 16.5 s
C19_Witness ==
  /\ ScenarioA /\ ev.op = "ForceSync"
  /\ sync.call.applied
  /\ sync.stats.driftHistory = <<1150>>
  /\ sync.videoTime = 1650

\* C20 as stated: a controller call whose seek throws makes a second seek, to the
\* clamped target, and exactly one; the watchdog stays scheduled.
C20_RetryOnceAfterThrow ==
  [][sync'.call.threw
     => (/\ sync'.call.seeks = 2
         /\ (ev'.op = "WatchdogFire"
               => (sync'.isActive /\ sync'.periodicTimeoutRef # NULL)))]_vars

\* C20 amended: a seek that throws is caught and not retried: the call made one
\* seek, applied nothing, counted no correction and left the follower position and
\* lastCorrectionTime as they were; the hook stays mounted, and a watchdog tick
\* in which it happened still schedules the next tick 2 s later.
C20_ThrowCaughtNoRetry ==
  [][sync'.call.threw
     => (/\ sync'.call.seeks = 1
         /\ ~sync'.call.applied /\ ~sync'.call.changed
         /\ sync'.videoTime = sync.videoTime
         /\ sync'.stats.corrections <= sync.stats.corrections
         /\ sync'.lastCorrectionTime = sync.lastCorrectionTime
         /\ mounted'
         /\ (ev'.op = "WatchdogFire"
               => (/\ sync'.isActive
                   /\ \E tm \in sync'.timers :
                        tm.id = sync'.periodicTimeoutRef /\ tm.due = now' + WATCHDOG_MS)))]_vars

\* a watchdog tick whose correction threw: the drift is still beyond the
\* threshold and the next tick is pending
C20_Witness ==
  /\ ev.op = "WatchdogFire" /\ sync.call.threw
  /\ Abs(Drift) > DRIFT_THRESHOLD * 2
  /\ sync.isActive /\ sync.timers # {}

\* C21: the cue registry is sorted ascending by position in every reachable
\* state, whatever add, update, remove, clear, import and drop operations led to it.
C21_RegistrySorted ==
  \A i \in 1..(Len(cuePoints) - 1) : cuePoints[i].time <= cuePoints[i + 1].time

\* C22: adding a cue whose position lies outside [0, duration] (the current time
\* is beyond the duration) reports a validation error and leaves the registry as
\* it was.
C22_AddRejectsOutOfRange ==
  [][(/\ ev'.op \in {"AddCue", "GridAdd", "GridAddAtSlot"}
      /\ LET position == IF ev'.op = "GridAddAtSlot" THEN ev'.arg[2] ELSE ev'.arg
         IN position < 0 \/ position > AudioDuration)
     => (cuePoints' = cuePoints /\ ev'.errors # {})]_vars

\* C23: an update whose resulting record has an out-of-range position, a blank
\* label or a key that another cue carries reports the error for that row and
\* leaves the registry as it was; a successful update replaces only the addressed
\* cue, and the registry is re-sorted by position when the field was the position.
C23_UpdateValidated ==
  [][ev'.op = "UpdateCue" =>
       LET index == ev'.arg[1] + 1
           field == ev'.arg[2]
           record == UpdatedCue(cuePoints[index], field, ev'.arg[3])
           replaced == [cuePoints EXCEPT ![index] = record]
           invalid == \/ record.time < 0 \/ record.time > AudioDuration
                      \/ IsBlank(record.label)
                      \/ /\ record.key # ""
                         /\ \E other \in DOMAIN cuePoints :
                              other # index /\ cuePoints[other].key = record.key
       IN IF invalid
          THEN /\ cuePoints' = cuePoints
               /\ ev'.errors # {}
               /\ editor'.validationErrors[index - 1] = ev'.errors
          ELSE /\ ev'.errors = {}
               /\ cuePoints' = IF field = "time" THEN SortByTime(replaced) ELSE replaced]_vars

\* a position edit that moved the second row in front of the first, after an
\* edit of the first row was rejected
C23_RejectedThenResorted ==
  /\ ev.op = "UpdateCue" /\ ev.errors = {} /\ ev.arg[2] = "time"
  /\ Len(cuePoints) = 2 /\ cuePoints[1].label = "Cue 2"
  /\ \E i \in DOMAIN editor.validationErrors : editor.validationErrors[i] # {}

\* C24: the key given to a cue added by "+ Add Cue" is the first symbol in the
\* scan order '1'..'9', 'a'..'z' that no cue of the registry carries; with
\* '1'..'9' all carried and 'a' free it is 'a'. The registry after the add is
\* the registry before it with the one new cue inserted.
C24_FirstUnusedKey ==
  [][ev'.op = "AddCue" =>
       LET used == {cuePoints[i].key : i \in DOMAIN cuePoints}
           Without(seq, j) == [i \in 1..(Len(seq) - 1) |-> IF i < j THEN seq[i] ELSE seq[i + 1]]
       IN \E j \in DOMAIN cuePoints', p \in DOMAIN KeyOrder :
            /\ Without(cuePoints', j) = cuePoints
            /\ cuePoints'[j].key = KeyOrder[p]
            /\ KeyOrder[p] \notin used
            /\ \A q \in 1..(p - 1) : KeyOrder[q] \in used
            /\ ({"1", "2", "3", "4", "5", "6", "7", "8", "9"} \subseteq used /\ "a" \notin used
                  => KeyOrder[p] = "a")]_vars

\* Scenario E: the nine digits are carried, a cue is added and gets 'a'
C24_DigitsUsedGivesA ==
  /\ ev.op = "AddCue"
  /\ Len(cuePoints) = 10
  /\ {cuePoints[i].key : i \in 1..9} = {"1", "2", "3", "4", "5", "6", "7", "8", "9"}
  /\ cuePoints[10].key = "a" /\ cuePoints[10].time = 27

\* C25: the key map holds at most one entry per key, whatever keys the cues of the
\* registry carry, and one key event, like one triggerByKey call, hands at most
\* one cue to onTriggerCue.
C25_OneCuePerKey ==
  /\ \A i, j \in DOMAIN kb.keyMapRef : kb.keyMapRef[i].key = kb.keyMapRef[j].key => i = j
  /\ ev.op \in {"KeyDown", "TriggerByKey"} => Len(ev.fired) <= 1

\* two cues of the registry carry the key "Q"; the key is pressed and one cue is triggered
C25_SharedKeyPressed ==
  /\ ev.op = "KeyDown" /\ Len(ev.fired) = 1
  /\ Len(cuePoints) = 2 /\ cuePoints[1].key = "Q" /\ cuePoints[2].key = "Q"

\* C26 (as claimed): a key is bound to the cue that was added first: adding a cue
\* never changes the cue an already bound key is bound to, wherever the new cue
\* is positioned.
C26_FirstRegisteredWins ==
  [][ev'.op = "GridAddAtSlot" =>
       \A i \in DOMAIN kb.keyMapRef :
         \E j \in DOMAIN kb'.keyMapRef :
           /\ kb'.keyMapRef[j].key = kb.keyMapRef[i].key
           /\ kb'.keyMapRef[j].cue = kb.keyMapRef[i].cue]_vars

\* C26 (amended): while the listener is installed, each key of the key map is
\* bound to the first cue in the order of the registry array (the order of the
\* positions) among the cues that carry the key, compared in lower case, and
\* every key a cue carries is bound.
C26_FirstInArrayWins ==
  kb.listening =>
    /\ \A e \in DOMAIN kb.keyMapRef :
         LET holders == {i \in DOMAIN cuePoints :
                           /\ cuePoints[i].key # ""
                           /\ ToLowerCase(cuePoints[i].key) = kb.keyMapRef[e].key}
         IN /\ holders # {}
            /\ \A i \in holders : kb.keyMapRef[e].index + 1 <= i
            /\ kb.keyMapRef[e].index + 1 \in holders
            /\ kb.keyMapRef[e].cue = cuePoints[kb.keyMapRef[e].index + 1]
    /\ \A i \in DOMAIN cuePoints :
         cuePoints[i].key # "" =>
           \E e \in DOMAIN kb.keyMapRef : kb.keyMapRef[e].key = ToLowerCase(cuePoints[i].key)

\* a cue with the key "Q" was just added in front of the cue that carried "Q"
\* before it, and the key is now bound to the new cue
C26_LaterAddedWins ==
  /\ ev.op = "GridAddAtSlot" /\ kb.listening
  /\ Len(cuePoints) = 2 /\ cuePoints[1].key = "Q" /\ cuePoints[2].key = "Q"
  /\ cuePoints[1].time = ev.arg[2] /\ cuePoints[2].time > cuePoints[1].time
  /\ kb.keyMapRef[1].cue = cuePoints[1]

\* C27: at every key event and at every triggerByKey, isKeyMapped and
\* getKeyMapping call the key map is the one derived from the registry as it is
\* then: each entry is a cue of the registry, at the index and with the position
\* the registry has for it, and every key a cue carries has an entry; also after
\* registry changes made while dispatch was disabled.
C27_KeyMapCurrent ==
  [][ev'.op \in {"KeyDown", "TriggerByKey", "IsKeyMapped", "GetKeyMapping"} =>
       /\ \A e \in DOMAIN kb.keyMapRef :
            /\ kb.keyMapRef[e].index + 1 \in DOMAIN cuePoints
            /\ cuePoints[kb.keyMapRef[e].index + 1] = kb.keyMapRef[e].cue
       /\ \A i \in DOMAIN cuePoints :
            cuePoints[i].key # "" =>
              \E e \in DOMAIN kb.keyMapRef :
                kb.keyMapRef[e].key = ToLowerCase(cuePoints[i].key)]_vars

\* C28 (as claimed): a key event with Ctrl, Alt, Meta or Shift down, or on an
\* input, textarea, select or content-editable target, triggers no cue.
C28_ModifiersNeverTrigger ==
  [][(/\ ev'.op = "KeyDown"
      /\ \/ ev'.arg.ctrlKey \/ ev'.arg.altKey \/ ev'.arg.metaKey \/ ev'.arg.shiftKey
         \/ ev'.arg.tagName \in {"input", "textarea", "select"}
         \/ ev'.arg.isContentEditable)
     => (Len(ev'.fired) = 0 /\ wp' = wp /\ kb' = kb)]_vars

\* C28 (amended): a key event with Ctrl, Alt or Meta down, or on an input,
\* textarea, select or content-editable target, triggers no cue and leaves the
\* player and the debounce stamps as they were; Shift alone does not hold an
\* event back.
C28_FilteredNeverTrigger ==
  [][(/\ ev'.op = "KeyDown"
      /\ \/ ev'.arg.ctrlKey \/ ev'.arg.altKey \/ ev'.arg.metaKey
         \/ ev'.arg.tagName \in {"input", "textarea", "select"}
         \/ ev'.arg.isContentEditable)
     => (Len(ev'.fired) = 0 /\ wp' = wp /\ kb' = kb)]_vars

\* Ctrl+q was pressed while "q" was bound and no stamp held it back: nothing was
\* triggered
C28_CtrlHeldBack ==
  /\ ev.op = "KeyDown" /\ ev.arg.ctrlKey /\ Len(ev.fired) = 0
  /\ kb.listening /\ IsKeyMapped(kb, ev.arg.key)
  /\ kb.lastTriggerRef = << >>

\* C29 (as claimed): two keyboard events on one key that both trigger a cue are
\* at least debounceMs apart.
C29_JumpsSpaced ==
  [][(ev'.op = "KeyDown" /\ Len(ev'.fired) > 0) =>
       \A j \in JumpsSoFar :
         j.key = ToLowerCase(ev'.arg.key) => now - j.at >= DebounceMs]_vars

\* C29 (amended): a key event that passes the filter on a bound key triggers its
\* cue unless the last keyboard trigger on the same key was less than debounceMs
\* ago and clearDebounce has not been called since; triggers on other keys and
\* suppressed events play no part, and a suppressed event leaves the stamps as
\* they were.
C29_DebouncePerKey ==
  [][ev'.op = "KeyDown" =>
       LET key == ToLowerCase(ev'.arg.key)
           passes == kb.listening /\ ~ShouldIgnoreEvent(kb.enabled, ev'.arg)
                       /\ IsKeyMapped(kb, key)
           held == /\ key \notin ClearedSoFar
                   /\ \E j \in JumpsSoFar : j.key = key /\ now - j.at < DebounceMs
       IN /\ Len(ev'.fired) > 0 <=> (passes /\ ~held)
          /\ Len(ev'.fired) = 0 => kb' = kb]_vars

\* a repeat of the key, later than the trigger and inside the window, was
\* suppressed and the stamp of the key is still the time of the trigger
C29_RepeatSuppressed ==
  /\ ev.op = "KeyDown" /\ Len(ev.fired) = 0
  /\ ev.arg = Key("q") /\ kb.listening /\ IsKeyMapped(kb, "q")
  /\ \E j \in ev.jumps :
       /\ j.key = "q" /\ now > j.at /\ now - j.at < DebounceMs
       /\ kb.lastTriggerRef["q"] = DateNow(j.at)

\* C30: round trip. A file saved from a valid, sorted registry, also one with a
\* cue without a key and a cue at position 0, is the export of the registry as it
\* is, and loading it is accepted and leaves the registry equal to the one it was
\* saved from, cue for cue and field for field.
C30_RoundTrip ==
  /\ [](editor.download # << >> =>
          /\ Len(editor.download[1].items) = Len(cuePoints)
          /\ \A i \in DOMAIN cuePoints :
               \A f \in {"time", "label", "key", "sample_rate", "sample_position"} :
                 editor.download[1].items[i][f] = cuePoints[i][f])
  /\ [][ev'.op = "Load" => (ev'.errors = {} /\ cuePoints' = cuePoints)]_vars

\* a registry with a keyless cue at position 0 and a cue with the key "Q" was
\* saved and loaded again
C30_KeylessAtZeroLoaded ==
  /\ ev.op = "Load" /\ ev.errors = {}
  /\ Len(cuePoints) = 2
  /\ cuePoints[1].time = 0 /\ cuePoints[1].key = "" /\ cuePoints[1].sample_position = 0
  /\ cuePoints[2].key = "Q" /\ cuePoints[2].sample_rate = 44100

\* C31: an import is all or nothing. When the root of the file is not an array or
\* one of its elements lacks a numeric time or a label, the import is rejected
\* with an error and the registry and the editor stay as they were; otherwise
\* the registry becomes the elements of the file, all of them, in one step.
C31_ImportAllOrNothing ==
  [][ev'.op = "Load" =>
       LET file == ev'.arg
           malformed == {i \in DOMAIN file.items :
                           \/ "time" \notin DOMAIN file.items[i]
                           \/ "label" \notin DOMAIN file.items[i]
                           \/ file.items[i].label = ""}
       IN IF file.root # "array" \/ malformed # {}
          THEN cuePoints' = cuePoints /\ editor' = editor /\ kb' = kb /\ ev'.errors # {}
          ELSE /\ ev'.errors = {}
               /\ Len(cuePoints') = Len(file.items)
               /\ \A i \in DOMAIN file.items :
                    \E j \in DOMAIN cuePoints' :
                      /\ cuePoints'[j].time = file.items[i].time
                      /\ cuePoints'[j].label = file.items[i].label]_vars

\* a file whose first element is well formed and whose second is not was
\* rejected over a registry that holds a cue
C31_MixedFileRejected ==
  /\ ev.op = "Load" /\ ev.errors # {}
  /\ ev.arg.root = "array" /\ Len(ev.arg.items) = 2
  /\ "label" \in DOMAIN ev.arg.items[1]
  /\ Len(cuePoints) > 0

\* C32: an import is held to the rules of add and update: a file with an element
\* whose position is negative or beyond the duration, whose label is blank, or
\* whose key another element of the file carries as well, is rejected with an
\* error and the registry stays as it was.
C32_ImportValidated ==
  [][ev'.op = "Load" =>
       LET items == ev'.arg.items
           Has(i, f) == f \in DOMAIN items[i]
           invalid == \E i \in DOMAIN items :
                        \/ Has(i, "time") /\ (items[i].time < 0 \/ items[i].time > AudioDuration)
                        \/ Has(i, "label") /\ IsBlank(items[i].label)
                        \/ /\ Has(i, "key") /\ items[i].key # ""
                           /\ \E j \in DOMAIN items :
                                j # i /\ Has(j, "key") /\ items[j].key = items[i].key
       IN invalid => (cuePoints' = cuePoints /\ ev'.errors # {})]_vars

\* ----------------------------------------------------------------------
\* WaveformPlayer.jsx from the moment it is mounted: the 'ready' and 'seek'
\* events of wavesurfer and the autoPlay effect. Here wp also holds
\*   autoPlay                  the prop
\*   autoStart                 "pending" while initAndStart awaits context.resume()
\*   autoSource                the source whose onended is the one initAndStart set
\*   seekIsPlaying, seekDuration   isPlaying and duration as the 'seek' handler
\*                             closed over them when the [audioUrl, height] effect ran
\* ----------------------------------------------------------------------

\* initAndStart after its await: the source is created and started without stopAudio
AutoStart(x, t, fail) ==
  LET id == NewSource(x.sources)
  IN CASE fail = "create" -> x
       [] fail = "start" ->
            [x EXCEPT !.wp.audioStartTimeRef = t, !.wp.cueOffsetRef = 0]
       [] OTHER ->
            [wp |-> [x.wp EXCEPT !.audioStartTimeRef = t,
                                 !.cueOffsetRef = 0,
                                 !.audioSourceRef = id,
                                 !.autoSource = id,
                                 !.isPlaying = TRUE],
             sources |-> [x.sources EXCEPT ![id] =
                            [state |-> "playing", endsAt |-> t + AudioDuration]],
             props |-> HandlePlaybackStateChange(x.props,
                         [isPlaying |-> TRUE, audioStartTime |-> t, cueOffset |-> 0])]

\* the autoPlay effect, run after a commit in which isReady changed
AutoPlayEffect(x, suspended, t, fail) ==
  IF ~(x.wp.isReady /\ x.wp.autoPlay /\ x.wp.audioBufferRef) \/ ~x.wp.audioContextRef THEN x
  ELSE IF suspended THEN [x EXCEPT !.wp.autoStart = "pending"]
  ELSE AutoStart(x, t, fail)

\* the onended of the source initAndStart started: the owner is not told
AutoOnEndedHandler(x, source) ==
  IF x.wp.audioSourceRef = source
  THEN [x EXCEPT !.wp.isPlaying = FALSE,
                 !.wp.audioSourceRef = NULL,
                 !.wp.audioStartTimeRef = NULL]
  ELSE x

\* wavesurfer.on('seek'): isPlaying and duration are those of the render that registered it
SeekHandler(x, progress, t, fail) ==
  LET seekTime == (progress * x.wp.seekDuration) \div 100
  IN IF x.wp.seekIsPlaying /\ x.wp.audioBufferRef
     THEN StartAudio(x, seekTime, t, fail)
     ELSE x

\* the component is mounted and wavesurfer is loading the audio
PlayerInit ==
  /\ now = 0
  /\ \E autoPlay \in BOOLEAN :
       wp = [audioContextRef |-> TRUE, audioBufferRef |-> FALSE, isReady |-> FALSE,
             audioSourceRef |-> NULL, audioStartTimeRef |-> NULL, cueOffsetRef |-> 0,
             isPlaying |-> FALSE, currentTime |-> 0,
             autoPlay |-> autoPlay, autoStart |-> "none", autoSource |-> NULL,
             seekIsPlaying |-> FALSE, seekDuration |-> 0]
  /\ sources = [i \in SourceIds |-> [state |-> "free", endsAt |-> 0]]
  /\ props = [isPlaying |-> FALSE, audioStartTime |-> NULL, cueOffset |-> 0,
              context |-> TRUE, videoElement |-> TRUE]
  /\ sync = [lastCorrectionTime |-> 0,
             stats |-> [corrections |-> 0, maxDrift |-> 0,
                        avgDrift |-> [sum |-> 0, n |-> 0], driftHistory |-> << >>],
             isActive |-> FALSE, periodicTimeoutRef |-> NULL, timers |-> {},
             videoTime |-> 0, videoDuration |-> NaNDur,
             call |-> NoCall, lastAppliedAt |-> NULL]
  /\ mounted = TRUE
  /\ ev = [op |-> "env", arg |-> 0, wasPlaying |-> FALSE, started |-> FALSE]
  /\ CueIdle

\* wavesurfer 'ready': setIsReady(true), the decoded buffer is taken if the backend
\* has one, and the autoPlay effect runs after the commit
WaveReady(buffer, suspended, fail) ==
  /\ ~wp.isReady
  /\ \E throws \in BOOLEAN :
       /\ Apply(AutoPlayEffect([World EXCEPT !.wp.isReady = TRUE,
                                             !.wp.audioBufferRef = buffer],
                               suspended, now, fail), throws)
       /\ SeekMade(throws)
  /\ Room
  /\ Event("Ready", 0, fail)
  /\ UNCHANGED <<now, mounted, cuePoints, editor, kb, activeCue>>

\* context.resume() resolves and initAndStart goes on
AutoResume(fail) ==
  /\ wp.autoStart = "pending"
  /\ FreeSources(sources) # {}
  /\ \E throws \in BOOLEAN :
       /\ Apply(AutoStart([World EXCEPT !.wp.autoStart = "none"], now, fail), throws)
       /\ SeekMade(throws)
  /\ Room
  /\ Event("AutoStart", 0, fail)
  /\ UNCHANGED <<now, mounted, cuePoints, editor, kb, activeCue>>

\* the 'ended' event of the source that initAndStart started
AutoOnEnded(source) ==
  /\ source = wp.autoSource
  /\ \/ sources[source].state = "ending"
     \/ sources[source].state = "playing" /\ now >= sources[source].endsAt
  /\ Apply(AutoOnEndedHandler([World EXCEPT !.sources[source] = [state |-> "free", endsAt |-> 0],
                                            !.wp.autoSource = NULL], source), FALSE)
  /\ Event("AutoEnded", source, "no")
  /\ UNCHANGED <<now, mounted, cuePoints, editor, kb, activeCue>>

\* a click on the waveform
Seek(progress) ==
  /\ wp.isReady
  /\ FreeSources(StopAudio(World).sources) # {}
  /\ Apply(SeekHandler(World, progress, now, "no"), FALSE)
  /\ Event("Seek", progress, "no")
  /\ UNCHANGED <<now, mounted, cuePoints, editor, kb, activeCue>>

\* time passes, long enough for a whole recording to play out; the clock is read
\* within Burst of a start and of the end of a recording
Elapse(d) ==
  /\ now + d <= PlayerEnd
  /\ (now + d) % AudioDuration <= Burst
  /\ wp.isPlaying => UpdateCurrentTime(wp, now) = wp
  /\ \A tm \in sync.timers : now < tm.due
  /\ \A i \in SourceIds :
       /\ sources[i].state # "ending"
       /\ sources[i].state = "playing" => now < sources[i].endsAt
  /\ now' = now + d
  /\ sync' = [sync EXCEPT !.call = NoCall,
                          !.videoTime = IF VideoRuns /\ @ < sync.videoDuration
                                        THEN Min(@ + d, sync.videoDuration) ELSE @]
  /\ Event("env", d, "no")
  /\ UNCHANGED <<wp, sources, props, mounted, cuePoints, editor, kb, activeCue>>

PlayerNext ==
  \/ \E buffer \in BOOLEAN, suspended \in BOOLEAN : WaveReady(buffer, suspended, "no")
  \/ AutoResume("no")
  \/ \E fail \in {"no", "start"} : Play(fail)
  \/ Pause
  \/ Jump(27, "no")
  \/ Seek(50)
  \/ \E source \in SourceIds : source # wp.autoSource /\ OnEnded(source)
  \/ \E source \in SourceIds : AutoOnEnded(source)
  \/ TimeUpdate
  \/ \E tm \in sync.timers : WatchdogFire(tm)
  \/ \E d \in {10, AudioDuration} : Elapse(d)

PlayerSpec == PlayerInit /\ [][PlayerNext]_vars

\* C33: click-to-seek. A seek on the waveform while the audio is playing replaces the
\* session by a new one: playing, offset = progress x duration, origin = now.
C33_SeekRestartsPlayback ==
  [][ev'.op = "Seek" /\ wp.isPlaying =>
       /\ wp'.isPlaying
       /\ wp'.cueOffsetRef = (ev'.arg * AudioDuration) \div 100
       /\ wp'.audioStartTimeRef = now]_vars

\* C34: a session exists exactly when the player is playing. After any sequence of
\* play, pause, jump, natural end and failed start, the origin is non-null iff
\* isPlaying is true iff a current audio source is held.
C34_SessionIffPlaying ==
  /\ (wp.audioStartTimeRef # NULL) <=> wp.isPlaying
  /\ wp.isPlaying <=> (wp.audioSourceRef # NULL)

C36_OwnerInformed ==
  [][ev'.op \in {"Play", "Pause", "Jump", "OnEnded", "Ready", "AutoStart", "AutoEnded"} =>
       /\ props'.isPlaying = wp'.isPlaying
       /\ props'.audioStartTime = wp'.audioStartTimeRef
       /\ props'.cueOffset = wp'.cueOffsetRef]_vars

\* C37: while playing, the 50 ms tick sets the reported position to
\* offset + (now - origin) for every origin >= 0, origin 0 included: when time moves
\* on after the tick has run, the reported position is the session's position.
C37_TickReportsPosition ==
  [][now' > now /\ wp.isPlaying /\ wp.audioStartTimeRef # NULL =>
       wp.currentTime = wp.cueOffsetRef + (now - wp.audioStartTimeRef)]_vars

\* ----------------------------------------------------------------------
\* The hook with the functions it returns: a caller that holds startSync and
\* stopSync calls them directly, between renders and watchdog firings
\* ----------------------------------------------------------------------

\* the caller calls the startSync function the hook returned
CallStartSync ==
  /\ mounted
  /\ Cardinality(sync.timers) < MaxPending
  /\ sync' = StartSync([sync EXCEPT !.call = NoCall], props, now)
  /\ Event("StartSync", Cardinality(sync.timers), "no")
  /\ UNCHANGED <<now, wp, sources, props, mounted, cuePoints, editor, kb, activeCue>>

\* the caller calls the stopSync function the hook returned
CallStopSync ==
  /\ mounted
  /\ sync' = StopSync([sync EXCEPT !.call = NoCall])
  /\ Event("StopSync", Cardinality(sync.timers), "no")
  /\ UNCHANGED <<now, wp, sources, props, mounted, cuePoints, editor, kb, activeCue>>

ApiNext ==
  \/ \E p \in HookProps : Render(p) /\ Room
  \/ CallStartSync
  \/ CallStopSync
  \/ Unmount
  \/ \E tm \in sync.timers : WatchdogFire(tm)
  \/ \E d \in Steps : Advance(d)

ApiSpec == Init /\ [][ApiNext]_vars

\* C38: at most one watchdog timeout is pending at any time, and none while the
\* active flag is false, for every sequence of lifecycle effect runs, watchdog
\* firings and calls to the returned startSync / stopSync.
C38_OneWatchdogPending ==
  /\ Cardinality(sync.timers) <= 1
  /\ ~sync.isActive => sync.timers = {}

\* C39: starting from an empty registry, add and update operations of the cue editor
\* and add operations of the cue grid (button or click on an empty slot) never leave
\* two cues whose keys are equal the way the dispatcher compares them (lower-cased):
\* each of these operations, made on a registry without such a pair, leaves none.
C39_KeysDistinctForDispatch ==
  [][LET Keyed(cues) == {i \in DOMAIN cues : "key" \in DOMAIN cues[i] /\ cues[i].key # ""}
         Distinct(cues) == \A i, j \in Keyed(cues) :
                             i # j => ToLowerCase(cues[i].key) # ToLowerCase(cues[j].key)
     IN ev'.op \in {"AddCue", "UpdateCue", "GridAdd", "GridAddAtSlot"} /\ Distinct(cuePoints)
          => Distinct(cuePoints')]_vars

\* C40: between resets correctionCount is the number of follower position
\* assignments that succeeded. A step adds exactly one when its controller call
\* applied a correction and nothing otherwise, counted from zero when the lifecycle
\* effect started the sync anew; a seek that throws changes neither the count nor
\* lastCorrectionTime, and a watchdog tick in which it threw has scheduled the next.
C40_CountsAppliedCorrections ==
  [][LET reset == /\ \/ props'.isPlaying # props.isPlaying
                     \/ props'.videoElement # props.videoElement
                     \/ props'.context # props.context
                     \/ props'.audioStartTime # props.audioStartTime
                  /\ props'.isPlaying /\ props'.videoElement /\ props'.context
                  /\ props'.audioStartTime # NULL
         base == IF reset THEN 0 ELSE sync.stats.corrections
     IN /\ sync'.stats.corrections = base + (IF sync'.call.applied THEN 1 ELSE 0)
        /\ sync'.call.threw =>
             /\ ~sync'.call.applied
             /\ sync'.stats.corrections = base
             /\ sync'.lastCorrectionTime = sync.lastCorrectionTime
             /\ ev'.op = "WatchdogFire" =>
                  /\ sync'.isActive
                  /\ sync'.periodicTimeoutRef \in {tm.id : tm \in sync'.timers}]_vars

\* a correction was applied and counted, and the seek of a later watchdog tick of
\* the same run threw: the count is still one and the next tick is pending
C40_ThrowAfterCountedCorrection ==
  /\ ev.op = "WatchdogFire"
  /\ sync.call.threw
  /\ sync.stats.corrections = 1
  /\ sync.timers # {}

====
